---------------------------- MODULE Spec2Model ----------------------------
(***************************************************************************)
(* A model of nom (Network Object Mirroring): the tagged codec of          *)
(* serialize.py, the packets of packet.py and the service of service.py.   *)
(*                                                                         *)
(* Python values are modelled as pairs <<type, payload>>:                  *)
(*   <<"int", n>>  <<"long", n>>  <<"str", bytes>>  <<"bool", b>>          *)
(*   <<"none", 0>>  <<"ellipsis", 0>>  <<"slice", <<start, stop, step>>>>  *)
(*   <<"list", items>>  <<"tuple", items>>  <<"set", items>>               *)
(*   <<"dict", pairs>>                                                     *)
(* A set's items and a dict's pairs are listed in the container's          *)
(* iteration order, which in CPython 2 depends on how it was built.        *)
(***************************************************************************)
EXTENDS Integers, Sequences, FiniteSets, Bags, TLC

VARIABLES
    \* ---- codec harness (serialize.py) ----
    cval,      \* the value the application holds
    calt,      \* the same value, its dicts built in another insertion order
    cdepth,    \* how many containers have been wrapped around the value
    cwire,     \* Serialize(cval), once written
    caltwire,  \* Serialize(calt), once written
    cdec,      \* Deserialize(cwire), once read
    cwire2,    \* Serialize(cdec), once written
    cpc,       \* "build" | "encoded" | "decoded" | "reencoded"
    \* ---- service (service.py), one Service per node ----
    XID,          \* Service.XID, the class attribute of the node's process
    omap,         \* Service.omap: id -> object
    pubmap,       \* Service.pubmap: name -> id
    outstanding,  \* Service.outstanding: xid -> Deferred
    clients,      \* Service.clients: the addresses with a Client
    WAITING,      \* Deferred.WAITING of the node's process
    TIMEOUT,      \* Deferred.TIMEOUT of the node's process
    translator,   \* the Service whose ObjectTranslator the node's process has
                  \* registered: serialize.SERIALIZERS[object] and TAGS[255]
    services,     \* the Services constructed so far
    lock,         \* the owner of Deferred.CONDITION's lock, or "free"
    heap,         \* the attributes of the application's objects
    nextId,       \* the id() the next object created will get
    net,          \* the datagrams in flight, a bag
    io,           \* the I/O thread of each Service (Service.run)
    workers,      \* the threads started by cmd_PULL, not yet run
    thr,          \* the application threads
    dfr,          \* the DeferredResults created so far
    inj,          \* how many datagrams the outside address has sent
    last          \* the datagram or PULL handled last, and what it did

cvars == <<cval, calt, cdepth, cwire, caltwire, cdec, cwire2, cpc>>

svars == <<XID, omap, pubmap, outstanding, clients, WAITING, TIMEOUT, translator,
           services, lock, heap,
           nextId, net, io, workers, thr, dfr, inj, last>>

vars == <<cvars, svars>>

-----------------------------------------------------------------------------
(* Bounds of the codec harness *)

\* longest container the application builds in one go
MaxLen == 2
\* how many times a value is wrapped into a further container
MaxDepth == 1

-----------------------------------------------------------------------------
(* Small helpers *)

Range(s) == {s[i] : i \in 1..Len(s)}

Min(a, b) == IF a < b THEN a ELSE b
MinOf(S) == CHOOSE x \in S : \A y \in S : x <= y

\* the first n elements of s / s without them, as cStringIO's read(n) leaves it
Take(s, n) == SubSeq(s, 1, Min(n, Len(s)))
Drop(s, n) == SubSeq(s, Min(n, Len(s)) + 1, Len(s))

RECURSIVE Concat(_)
Concat(ss) == IF ss = <<>> THEN <<>> ELSE Head(ss) \o Concat(Tail(ss))

\* the result of reading from a stream: the value read and the stream left,
\* or the exception that propagates out of Deserialize
Got(val, rest) == [ok |-> TRUE, v |-> val, r |-> rest]
Raised == [ok |-> FALSE, v |-> <<"fail", 0>>, r |-> <<>>]

-----------------------------------------------------------------------------
(* IntSerializer, ByteSerializer (serialize.py:112-120, 230-240) *)

\* struct.pack('!l', n): four bytes, big-endian two's complement.  For n < 0
\* the top bit is set and the low 31 bits hold n + 2^31.
PackLong(n) ==
    LET u == IF n >= 0 THEN n ELSE (n + 2147483647) + 1
    IN  << (IF n < 0 THEN 128 ELSE 0) + (u \div 16777216),
           (u \div 65536) % 256,
           (u \div 256) % 256,
           u % 256 >>

\* struct.unpack('!l', b)[0] of four bytes
UnpackLong(b) ==
    LET u == (((b[1] % 128) * 256 + b[2]) * 256 + b[3]) * 256 + b[4]
    IN  IF b[1] >= 128 THEN (u - 2147483647) - 1 ELSE u

IntSerializer_Serialize(obj) == PackLong(obj[2])

\* struct.error on a short read
IntSerializer_Deserialize(fin) ==
    IF Len(fin) < 4 THEN Raised
    ELSE Got(<<"int", UnpackLong(Take(fin, 4))>>, Drop(fin, 4))

\* struct.pack('!B', n) of a protocol byte (a tag, a sequence kind)
ByteSerializer_Serialize(obj) == <<obj>>

ByteSerializer_Deserialize(fin) ==
    IF Len(fin) < 1 THEN Raised ELSE Got(fin[1], Drop(fin, 1))

-----------------------------------------------------------------------------
(* BytesSerializer (serialize.py:142-152): INT(length) then the raw bytes *)

BytesSerializer_Serialize(obj) ==
    IntSerializer_Serialize(<<"int", Len(obj[2])>>) \o obj[2]

\* fin.read(l) returns what is left when fewer than l bytes remain, and
\* everything when l is negative
BytesSerializer_Deserialize(fin) ==
    LET l == IntSerializer_Deserialize(fin)
    IN  IF ~l.ok THEN Raised
        ELSE IF l.v[2] < 0 THEN Got(<<"str", l.r>>, <<>>)
        ELSE Got(<<"str", Take(l.r, l.v[2])>>, Drop(l.r, l.v[2]))

-----------------------------------------------------------------------------
(* LongSerializer (serialize.py:122-130): the decimal digits, as BYTES *)

RECURSIVE Digits(_)
Digits(n) == IF n < 10 THEN <<48 + n>> ELSE Digits(n \div 10) \o <<48 + (n % 10)>>

\* str(obj) of a long: "-" and the decimal digits
StrOfLong(obj) ==
    <<"str", IF obj[2] < 0 THEN <<45>> \o Digits(0 - obj[2]) ELSE Digits(obj[2])>>

IsDigit(b) == b >= 48 /\ b <= 57

RECURSIVE DigitsValue(_, _)
DigitsValue(s, acc) ==
    IF s = <<>> THEN acc ELSE DigitsValue(Tail(s), acc * 10 + (Head(s) - 48))

\* long(s) accepts an optional sign and at least one digit
IsLongLiteral(s) ==
    LET signed == s # <<>> /\ Head(s) \in {43, 45}
        body   == IF signed THEN Tail(s) ELSE s
    IN  body # <<>> /\ \A i \in 1..Len(body) : IsDigit(body[i])

LongOfStr(s) ==
    IF Head(s) = 45 THEN <<"long", 0 - DigitsValue(Tail(s), 0)>>
    ELSE IF Head(s) = 43 THEN <<"long", DigitsValue(Tail(s), 0)>>
    ELSE <<"long", DigitsValue(s, 0)>>

LongSerializer_Serialize(obj) == BytesSerializer_Serialize(StrOfLong(obj))

\* ValueError when the bytes are no integer literal
LongSerializer_Deserialize(fin) ==
    LET b == BytesSerializer_Deserialize(fin)
    IN  IF ~b.ok \/ ~IsLongLiteral(b.v[2]) THEN Raised
        ELSE Got(LongOfStr(b.v[2]), b.r)

-----------------------------------------------------------------------------
(* BoolSerializer, NoneSerializer, SliceSerializer, EllipsisSerializer     *)
(* (serialize.py:173-181, 242-274)                                         *)

BoolSerializer_Serialize(obj) ==
    IntSerializer_Serialize(<<"int", IF obj[2] THEN 1 ELSE 0>>)

\* bool(IntSerializer.Deserialize(fin))
BoolSerializer_Deserialize(fin) ==
    LET i == IntSerializer_Deserialize(fin)
    IN  IF ~i.ok THEN Raised ELSE Got(<<"bool", i.v[2] # 0>>, i.r)

NoneSerializer_Serialize(obj) == <<>>
NoneSerializer_Deserialize(fin) == Got(<<"none", 0>>, fin)

EllipsisSerializer_Serialize(obj) == <<>>
EllipsisSerializer_Deserialize(fin) == Got(<<"ellipsis", 0>>, fin)

\* start, stop and step go through IntSerializer
SliceSerializer_Serialize(obj) ==
    IntSerializer_Serialize(<<"int", obj[2][1]>>)
        \o IntSerializer_Serialize(<<"int", obj[2][2]>>)
        \o IntSerializer_Serialize(<<"int", obj[2][3]>>)

SliceSerializer_Deserialize(fin) ==
    LET a == IntSerializer_Deserialize(fin)
        b == IF a.ok THEN IntSerializer_Deserialize(a.r) ELSE Raised
        c == IF b.ok THEN IntSerializer_Deserialize(b.r) ELSE Raised
    IN  IF ~c.ok THEN Raised
        ELSE Got(<<"slice", <<a.v[2], b.v[2], c.v[2]>>>>, c.r)

-----------------------------------------------------------------------------
(* Tags and the type registry (serialize.py:35-101) *)

TAG_INT == 1
TAG_LONG == 2
TAG_FLOAT == 3
TAG_BYTES == 4
TAG_TEXT == 5
TAG_BOOL == 6
TAG_SEQ == 7
TAG_MAP == 8
TAG_BYTE == 9
TAG_NONE == 10
TAG_SLICE == 11
TAG_ELLIPSIS == 12
TAG_ERROR == 13
\* ObjectTranslator.__tag__
TAG_OBJECT == 255

TypeOf(obj) == obj[1]

\* tp.mro() of the types the registry knows
Mro(tp) ==
    CASE tp = "object"    -> <<"object">>
      [] tp = "bool"      -> <<"bool", "int", "object">>
      [] tp = "str"       -> <<"str", "basestring", "object">>
      [] tp = "unicode"   -> <<"unicode", "basestring", "object">>
      [] tp = "Exception" -> <<"Exception", "BaseException", "object">>
      [] OTHER            -> <<tp, "object">>

IsInstance(obj, tp) == tp \in Range(Mro(TypeOf(obj)))

\* SERIALIZERS, type -> the tag of its serializer, as the class definitions
\* and Service.__init__'s SetSerializer(object, ...) leave it
SERIALIZERS ==
    [tp \in {"int", "long", "float", "str", "unicode", "bool", "list", "tuple",
             "set", "dict", "none", "slice", "ellipsis", "Exception", "object"} |->
        CASE tp = "int"       -> TAG_INT
          [] tp = "long"      -> TAG_LONG
          [] tp = "float"     -> TAG_FLOAT
          [] tp = "str"       -> TAG_BYTES
          [] tp = "unicode"   -> TAG_TEXT
          [] tp = "bool"      -> TAG_BOOL
          [] tp \in {"list", "tuple", "set"} -> TAG_SEQ
          [] tp = "dict"      -> TAG_MAP
          [] tp = "none"      -> TAG_NONE
          [] tp = "slice"     -> TAG_SLICE
          [] tp = "ellipsis"  -> TAG_ELLIPSIS
          [] tp = "Exception" -> TAG_ERROR
          [] tp = "object"    -> TAG_OBJECT]

\* the serializer of the registered type with the longest mro that obj is an
\* instance of (for the types above the longest is unique)
GetIdealSerializer(obj) ==
    LET cands == {tp \in DOMAIN SERIALIZERS : IsInstance(obj, tp)}
        best  == CHOOSE tp \in cands :
                     \A o \in cands : Len(Mro(tp)) >= Len(Mro(o))
    IN  SERIALIZERS[best]

\* SequenceSerializer.SEQ_ID_MAP and SEQ_TYPE_MAP
SEQ_ID_MAP == [tp \in {"list", "tuple", "set"} |->
                 CASE tp = "list" -> 0 [] tp = "tuple" -> 1 [] tp = "set" -> 2]

SEQ_TYPE_MAP == [k \in {0, 1, 2} |->
                 CASE k = 0 -> "list" [] k = 1 -> "tuple" [] k = 2 -> "set"]

-----------------------------------------------------------------------------
(* Python 2 equality, hashing and ordering of the values a dict key or a   *)
(* set element can be                                                      *)

IsNumber(obj) == TypeOf(obj) \in {"int", "long", "bool"}

Num(obj) == IF TypeOf(obj) = "bool" THEN (IF obj[2] THEN 1 ELSE 0) ELSE obj[2]

RECURSIVE Hashable(_)
Hashable(obj) ==
    CASE TypeOf(obj) \in {"int", "long", "bool", "str", "none", "ellipsis"} -> TRUE
      [] TypeOf(obj) = "tuple" -> \A i \in 1..Len(obj[2]) : Hashable(obj[2][i])
      [] OTHER -> FALSE

\* a == b: numbers by value whatever their type, tuples item by item
RECURSIVE PyEq(_, _)
PyEq(a, b) ==
    IF IsNumber(a) /\ IsNumber(b) THEN Num(a) = Num(b)
    ELSE IF TypeOf(a) # TypeOf(b) THEN FALSE
    ELSE IF TypeOf(a) = "tuple"
         THEN /\ Len(a[2]) = Len(b[2])
              /\ \A i \in 1..Len(a[2]) : PyEq(a[2][i], b[2][i])
    ELSE a = b

\* lexicographic order of two byte strings
RECURSIVE BytesLess(_, _)
BytesLess(s, t) ==
    IF t = <<>> THEN FALSE
    ELSE IF s = <<>> THEN TRUE
    ELSE IF Head(s) # Head(t) THEN Head(s) < Head(t)
    ELSE BytesLess(Tail(s), Tail(t))

\* the order of values of different types: None first, then the numbers,
\* then the other types by type name ("ellipsis" < "str" < "tuple")
TypeRank(obj) ==
    CASE TypeOf(obj) = "none"     -> 0
      [] IsNumber(obj)            -> 1
      [] TypeOf(obj) = "ellipsis" -> 2
      [] TypeOf(obj) = "str"      -> 3
      [] TypeOf(obj) = "tuple"    -> 4
      [] OTHER                    -> 5

\* a < b, as sorted() compares keys
RECURSIVE PyLess(_, _)
PyLess(a, b) ==
    IF TypeRank(a) # TypeRank(b) THEN TypeRank(a) < TypeRank(b)
    ELSE IF IsNumber(a) THEN Num(a) < Num(b)
    ELSE IF TypeOf(a) = "str" THEN BytesLess(a[2], b[2])
    ELSE IF TypeOf(a) = "tuple"
         THEN LET n    == Min(Len(a[2]), Len(b[2]))
                  diff == {i \in 1..n : ~PyEq(a[2][i], b[2][i])}
              IN  IF diff = {} THEN Len(a[2]) < Len(b[2])
                  ELSE LET i == CHOOSE j \in diff : \A k \in diff : j <= k
                       IN  PyLess(a[2][i], b[2][i])
    ELSE FALSE

\* sorted(items, key=lambda item: item[0]): a stable insertion sort
RECURSIVE InsertByKey(_, _)
InsertByKey(pair, sorted) ==
    IF sorted = <<>> THEN <<pair>>
    ELSE IF PyLess(pair[1], Head(sorted)[1]) THEN <<pair>> \o sorted
    ELSE <<Head(sorted)>> \o InsertByKey(pair, Tail(sorted))

RECURSIVE SortedByKey(_)
SortedByKey(items) ==
    IF items = <<>> THEN <<>>
    ELSE InsertByKey(items[Len(items)], SortedByKey(SubSeq(items, 1, Len(items) - 1)))

\* set(ret): the items in order, one that equals an earlier one dropped
RECURSIVE SetOfList(_)
SetOfList(ret) ==
    IF ret = <<>> THEN <<>>
    ELSE LET init == SetOfList(SubSeq(ret, 1, Len(ret) - 1))
             item == ret[Len(ret)]
         IN  IF \E i \in 1..Len(init) : PyEq(init[i], item) THEN init
             ELSE Append(init, item)

\* ret[key] = val: the value of an equal key replaced, else a new pair
DictSetItem(ret, key, val) ==
    IF \E i \in 1..Len(ret) : PyEq(ret[i][1], key)
    THEN [i \in 1..Len(ret) |->
             IF PyEq(ret[i][1], key) THEN <<ret[i][1], val>> ELSE ret[i]]
    ELSE Append(ret, <<key, val>>)

-----------------------------------------------------------------------------
(* SequenceSerializer, MapSerializer, Serialize, Deserialize               *)
(* (serialize.py:183-228, 296-311).  The byte-level harness streams the    *)
(* variants INT, LONG, BYTES, BOOL, SEQ, MAP, NONE, SLICE and ELLIPSIS;    *)
(* floats, text and errors are not built by it, and object handles are     *)
(* modelled with the service, which owns their translator.                 *)

RECURSIVE Serialize(_)
RECURSIVE Deserialize(_)

RECURSIVE SerializeAll(_)
SerializeAll(items) ==
    IF items = <<>> THEN <<>> ELSE Serialize(Head(items)) \o SerializeAll(Tail(items))

\* INT(len), BYTE(kind), then every item with its own tag
SequenceSerializer_Serialize(obj) ==
    IntSerializer_Serialize(<<"int", Len(obj[2])>>)
        \o ByteSerializer_Serialize(SEQ_ID_MAP[TypeOf(obj)])
        \o SerializeAll(obj[2])

\* for i in xrange(l): ret.append(Deserialize(fin))
RECURSIVE DeserializeItems(_, _, _)
DeserializeItems(n, fin, ret) ==
    IF n <= 0 THEN Got(ret, fin)
    ELSE LET item == Deserialize(fin)
         IN  IF ~item.ok THEN Raised
             ELSE DeserializeItems(n - 1, item.r, Append(ret, item.v))

\* a broken SequenceSerializer.Deserialize that returns every kind as a list
SequenceSerializer_Deserialize_AsList(fin) ==
    LET l  == IntSerializer_Deserialize(fin)
        k  == IF l.ok THEN ByteSerializer_Deserialize(l.r) ELSE Raised
        it == IF k.ok /\ k.v \in DOMAIN SEQ_TYPE_MAP
              THEN DeserializeItems(l.v[2], k.r, <<>>) ELSE Raised
    IN  IF ~it.ok THEN Raised ELSE Got(<<"list", it.v>>, it.r)

\* KeyError on an unknown kind byte; TypeError from set() of an unhashable item
SequenceSerializer_Deserialize(fin) ==
    LET l  == IntSerializer_Deserialize(fin)
        k  == IF l.ok THEN ByteSerializer_Deserialize(l.r) ELSE Raised
        it == IF k.ok /\ k.v \in DOMAIN SEQ_TYPE_MAP
              THEN DeserializeItems(l.v[2], k.r, <<>>) ELSE Raised
    IN  IF ~it.ok THEN Raised
        ELSE LET tp == SEQ_TYPE_MAP[k.v]
             IN  IF tp = "list" THEN Got(<<"list", it.v>>, it.r)
                 ELSE IF tp = "tuple" THEN Got(<<"tuple", it.v>>, it.r)
                 ELSE IF \A i \in 1..Len(it.v) : Hashable(it.v[i])
                      THEN Got(<<"set", SetOfList(it.v)>>, it.r)
                 ELSE Raised

RECURSIVE SerializePairs(_)
SerializePairs(pairs) ==
    IF pairs = <<>> THEN <<>>
    ELSE SequenceSerializer_Serialize(<<"tuple", Head(pairs)>>)
             \o SerializePairs(Tail(pairs))

\* a broken MapSerializer.Serialize that emits the pairs in iteration order
MapSerializer_Serialize_Unsorted(obj) ==
    IntSerializer_Serialize(<<"int", Len(obj[2])>>) \o SerializePairs(obj[2])

\* INT(len), then each (key, value) of sorted(obj.items()) as a sequence
MapSerializer_Serialize(obj) ==
    IntSerializer_Serialize(<<"int", Len(obj[2])>>)
        \o SerializePairs(SortedByKey(obj[2]))

\* key, val = SequenceSerializer.Deserialize(fin); ret[key] = val
RECURSIVE DeserializePairs(_, _, _)
DeserializePairs(n, fin, ret) ==
    IF n <= 0 THEN Got(<<"dict", ret>>, fin)
    ELSE LET pair == SequenceSerializer_Deserialize(fin)
         IN  IF ~pair.ok THEN Raised
             ELSE IF Len(pair.v[2]) # 2 THEN Raised
             ELSE IF ~Hashable(pair.v[2][1]) THEN Raised
             ELSE DeserializePairs(n - 1, pair.r,
                                   DictSetItem(ret, pair.v[2][1], pair.v[2][2]))

MapSerializer_Deserialize(fin) ==
    LET l == IntSerializer_Deserialize(fin)
    IN  IF ~l.ok THEN Raised ELSE DeserializePairs(l.v[2], l.r, <<>>)

\* se.Serialize(obj, stream) of the serializer with tag `tag`
SerializeBody(tag, obj) ==
    CASE tag = TAG_INT      -> IntSerializer_Serialize(obj)
      [] tag = TAG_LONG     -> LongSerializer_Serialize(obj)
      [] tag = TAG_BYTES    -> BytesSerializer_Serialize(obj)
      [] tag = TAG_BOOL     -> BoolSerializer_Serialize(obj)
      [] tag = TAG_SEQ      -> SequenceSerializer_Serialize(obj)
      [] tag = TAG_MAP      -> MapSerializer_Serialize(obj)
      [] tag = TAG_NONE     -> NoneSerializer_Serialize(obj)
      [] tag = TAG_SLICE    -> SliceSerializer_Serialize(obj)
      [] tag = TAG_ELLIPSIS -> EllipsisSerializer_Serialize(obj)

\* the tag byte of the ideal serializer, then its body
Serialize(obj) ==
    LET tag == GetIdealSerializer(obj)
    IN  ByteSerializer_Serialize(tag) \o SerializeBody(tag, obj)

\* the body read by the serializer TAGS[tag]; KeyError on a tag without one
DeserializeBody(tag, fin) ==
    CASE tag = TAG_INT      -> IntSerializer_Deserialize(fin)
      [] tag = TAG_LONG     -> LongSerializer_Deserialize(fin)
      [] tag = TAG_BYTES    -> BytesSerializer_Deserialize(fin)
      [] tag = TAG_BOOL     -> BoolSerializer_Deserialize(fin)
      [] tag = TAG_SEQ      -> SequenceSerializer_Deserialize(fin)
      [] tag = TAG_MAP      -> MapSerializer_Deserialize(fin)
      [] tag = TAG_BYTE     -> LET b == ByteSerializer_Deserialize(fin)
                               IN  IF b.ok THEN Got(<<"int", b.v>>, b.r) ELSE Raised
      [] tag = TAG_NONE     -> NoneSerializer_Deserialize(fin)
      [] tag = TAG_SLICE    -> SliceSerializer_Deserialize(fin)
      [] tag = TAG_ELLIPSIS -> EllipsisSerializer_Deserialize(fin)
      [] OTHER              -> Raised

\* tag = ByteSerializer.Deserialize(stream); TAGS[tag].Deserialize(stream)
Deserialize(stream) ==
    LET tag == ByteSerializer_Deserialize(stream)
    IN  IF ~tag.ok THEN Raised ELSE DeserializeBody(tag.v, tag.r)

-----------------------------------------------------------------------------
(* The codec harness: an application builds a value, writes it with        *)
(* Serialize, reads it back with Deserialize and writes what it read.      *)

MinInt32 == (0 - 2147483647) - 1
MaxInt32 == 2147483647

Atoms ==
    {<<"int", n>> : n \in {MinInt32, -1, 0, 1, 255, 65536, MaxInt32}}
        \cup {<<"long", n>> : n \in {-12, 0, 7, 1234567890}}
        \cup {<<"str", s>> : s \in {<<>>, <<97>>, <<98>>, <<97, 98>>, <<0, 255>>}}
        \cup {<<"bool", b>> : b \in BOOLEAN}
        \cup {<<"none", 0>>, <<"ellipsis", 0>>}
        \cup {<<"slice", <<0, 1, 1>>>>, <<"slice", <<-1, MaxInt32, -2>>>>}

\* what the harness puts into containers
Elems == {<<"int", 1>>, <<"long", 7>>, <<"str", <<97>>>>, <<"bool", TRUE>>,
          <<"slice", <<0, 1, 1>>>>}

Keys == {<<"int", -1>>, <<"str", <<98>>>>, <<"str", <<97>>>>, <<"bool", TRUE>>,
         <<"none", 0>>}

Vals == {<<"int", 1>>, <<"str", <<97>>>>}

SeqsUpTo(S, n) == UNION {[1..k -> S] : k \in 0..n}

\* no two items equal: what a set can hold, what a dict's keys can be
Distinct(items) ==
    \A i, j \in 1..Len(items) : i # j => ~PyEq(items[i], items[j])

FlatValues ==
    Atoms
        \cup {<<"list", s>> : s \in SeqsUpTo(Elems, MaxLen)}
        \cup {<<"tuple", s>> : s \in SeqsUpTo(Elems, MaxLen)}
        \cup {<<"set", s>> : s \in {q \in SeqsUpTo({e \in Elems : Hashable(e)}, MaxLen) :
                                      Distinct(q)}}
        \cup {<<"dict", p>> : p \in {q \in SeqsUpTo(Keys \X Vals, MaxLen) :
                                       Distinct([i \in 1..Len(q) |-> q[i][1]])}}

\* the orders in which the items of s can be listed
Perms(s) ==
    {[i \in 1..Len(s) |-> s[f[i]]] :
        f \in {g \in [1..Len(s) -> 1..Len(s)] :
                 \A i, j \in 1..Len(s) : g[i] = g[j] => i = j}}

\* the same dict after other insertion orders
Rebuilt(obj) ==
    IF TypeOf(obj) = "dict" THEN {<<"dict", p>> : p \in Perms(obj[2])} ELSE {obj}

\* the containers the application can put (v, its twin a) into
Wraps(v, a) ==
    {<< <<"list", <<v>>>>, <<"list", <<a>>>> >>,
     << <<"tuple", << <<"bool", FALSE>>, v >> >>,
        <<"tuple", << <<"bool", FALSE>>, a >> >> >>,
     << <<"dict", << <<<<"str", <<98>>>>, v>>, <<<<"int", 0>>, <<"none", 0>>>> >> >>,
        <<"dict", << <<<<"int", 0>>, <<"none", 0>>>>, <<<<"str", <<98>>>>, a>> >> >> >>}
        \cup (IF Hashable(v)
              THEN {<< <<"set", <<v>>>>, <<"set", <<a>>>> >>,
                    << <<"dict", << <<v, <<"int", 1>>>> >> >>,
                       <<"dict", << <<a, <<"int", 1>>>> >> >> >>}
              ELSE {})

CodecInit ==
    /\ cval \in FlatValues
    /\ calt \in Rebuilt(cval)
    /\ cdepth = 0
    /\ cwire = <<>>
    /\ caltwire = <<>>
    /\ cdec = Raised
    /\ cwire2 = <<>>
    /\ cpc = "build"

\* the application nests the value in a further container
Wrap ==
    /\ cpc = "build"
    /\ cdepth < MaxDepth
    /\ \E w \in Wraps(cval, calt) : cval' = w[1] /\ calt' = w[2]
    /\ cdepth' = cdepth + 1
    /\ UNCHANGED <<cwire, caltwire, cdec, cwire2, cpc>>
    /\ UNCHANGED svars

\* data = Serialize(value), for the value and for its twin
Encode ==
    /\ cpc = "build"
    /\ cwire' = Serialize(cval)
    /\ caltwire' = Serialize(calt)
    /\ cpc' = "encoded"
    /\ UNCHANGED <<cval, calt, cdepth, cdec, cwire2>>
    /\ UNCHANGED svars

\* value = Deserialize(data)
Decode ==
    /\ cpc = "encoded"
    /\ cdec' = Deserialize(cwire)
    /\ cpc' = "decoded"
    /\ UNCHANGED <<cval, calt, cdepth, cwire, caltwire, cwire2>>
    /\ UNCHANGED svars

\* data = Serialize(value) of the value just read
Reencode ==
    /\ cpc = "decoded"
    /\ cdec.ok
    /\ cwire2' = Serialize(cdec.v)
    /\ cpc' = "reencoded"
    /\ UNCHANGED <<cval, calt, cdepth, cwire, caltwire, cdec>>
    /\ UNCHANGED svars

CodecNext == Wrap \/ Encode \/ Decode \/ Reencode

-----------------------------------------------------------------------------
(* Properties of the codec *)

\* the same items, whatever their order
RECURSIVE SameValue(_, _)
SameItems(s, t) ==
    /\ \A i \in 1..Len(s) : \E j \in 1..Len(t) : SameValue(s[i], t[j])
    /\ \A j \in 1..Len(t) : \E i \in 1..Len(s) : SameValue(s[i], t[j])

\* structural equality that keeps the variant and the sequence kind: a bool
\* is not an int, a tuple is not a list; sets and dicts compare unordered
SameValue(a, b) ==
    /\ TypeOf(a) = TypeOf(b)
    /\ CASE TypeOf(a) \in {"list", "tuple"} ->
                /\ Len(a[2]) = Len(b[2])
                /\ \A i \in 1..Len(a[2]) : SameValue(a[2][i], b[2][i])
         [] TypeOf(a) = "set" ->
                Len(a[2]) = Len(b[2]) /\ SameItems(a[2], b[2])
         [] TypeOf(a) = "dict" ->
                /\ Len(a[2]) = Len(b[2])
                /\ SameItems([i \in 1..Len(a[2]) |-> <<"tuple", a[2][i]>>],
                             [i \in 1..Len(b[2]) |-> <<"tuple", b[2][i]>>])
         [] OTHER -> a = b

RECURSIVE HasType(_, _)
HasType(obj, tp) ==
    \/ TypeOf(obj) = tp
    \/ /\ TypeOf(obj) \in {"list", "tuple", "set"}
       /\ \E i \in 1..Len(obj[2]) : HasType(obj[2][i], tp)
    \/ /\ TypeOf(obj) = "dict"
       /\ \E i \in 1..Len(obj[2]) :
              HasType(obj[2][i][1], tp) \/ HasType(obj[2][i][2], tp)

Ascending(pairs) ==
    \A i \in 1..Len(pairs) - 1 : PyLess(pairs[i][1], pairs[i + 1][1])

\* C8: for every value of the supported variants other than floats and
\* object handles, Deserialize(Serialize(v)) reads the whole stream and is
\* structurally equal to v, with the variant and the sequence kind kept.
C8_RoundTrip ==
    cpc \in {"decoded", "reencoded"} =>
        cdec.ok /\ cdec.r = <<>> /\ SameValue(cdec.v, cval)

\* a tuple holding a bool, nested in a container, has been read back
C8_Witness ==
    /\ cpc = "decoded"
    /\ cdepth = 1
    /\ TypeOf(cval) = "list"
    /\ TypeOf(cval[2][1]) = "tuple"
    /\ HasType(cval, "bool")
    /\ HasType(cval, "slice")

-----------------------------------------------------------------------------
(* The service (service.py).  Every node runs one Service in a process of  *)
(* its own; an address (host, port) is written as the node's name.  Values *)
(* held by a node are the pairs above, with strings spelt out, and         *)
(*   <<"obj", id>>                  an object of the application           *)
(*   <<"proxy", <<id, oid, addr>>>> proxy.Proxy(RemoteReference(srv,       *)
(*                                  client of addr, oid)), itself an       *)
(*                                  object with an id                      *)
(*   <<"Exception", <<name, args>>>> an exception and its arguments        *)
(* On the wire the objects are handles <<"handle", <<oid, addr>>>> and the *)
(* exceptions are <<"error", <<name, args>>>>.                             *)

\* the addresses that run a Service, and one that only sends datagrams
Nodes == {"S", "T"}
Ext == {"E"}
Addrs == Nodes \cup Ext

\* the threads that call out, and the node each runs on: application
\* threads (a1, a2, b1) and worker threads started by cmd_PULL (w1, w2)
Threads == {"a1", "a2", "b1", "w1", "w2"}
Home(t) == IF t \in {"b1", "w2"} THEN "T" ELSE "S"

\* id() of the objects the application of each node creates at start-up
ObjIds == {1, 2}

\* directory names
Names == {"o"}

\* attribute names, as bytes: "x", "_s"
AttrX == <<120>>
AttrSecret == <<95, 115>>

None == <<"none", 0>>
Obj(k) == <<"obj", k>>
Proxy(id, oid, addr) == <<"proxy", <<id, oid, addr>>>>
Handle(oid, addr) == <<"handle", <<oid, addr>>>>
Exc(name, arg) == <<"Exception", <<name, <<arg>>>>>>
Str(s) == <<"str", s>>

IsObject(v) == TypeOf(v) \in {"obj", "proxy"}

\* id(obj)
IdOf(v) == IF TypeOf(v) = "obj" THEN v[2] ELSE v[2][1]

\* dict helpers: d[k] = v and del d[k]
DictSet(d, k, v) == (k :> v) @@ d
DictDel(d, k) == [x \in DOMAIN d \ {k} |-> d[x]]

-----------------------------------------------------------------------------
(* Packets (packet.py): a command byte and an attribute map.  `has` is the *)
(* set of attributes present; an absent attribute's field is a filler.     *)
(* `ok` is FALSE for bytes that Packet.FromStr cannot decode.              *)

CMD_SYNC == 0
CMD_DESYNC == 1
CMD_PULL == 2
CMD_RESOLVE == 3
CMD_LIST == 4
CMD_PUSH == 5

\* CMD.NAMES restricted to command bytes: KeyError outside it
CMD_NAMES ==
    [c \in {CMD_SYNC, CMD_DESYNC, CMD_PULL, CMD_RESOLVE, CMD_LIST, CMD_PUSH} |->
        CASE c = CMD_SYNC    -> "SYNC"
          [] c = CMD_DESYNC  -> "DESYNC"
          [] c = CMD_PULL    -> "PULL"
          [] c = CMD_RESOLVE -> "RESOLVE"
          [] c = CMD_LIST    -> "LIST"
          [] c = CMD_PUSH    -> "PUSH"]

\* an integer of Python, which has no width: <<hi, lo>> stands for
\* hi * 2^16 + lo with lo in 0 .. 2^16 - 1, so that 2^32 - 1 = <<65535, 65535>>
\* and -1 = <<-1, 65535>> can be told apart
PyInt(n) == <<n \div 65536, n % 65536>>
PyInt_Inc(w) == IF w[2] = 65535 THEN <<w[1] + 1, 0>> ELSE <<w[1], w[2] + 1>>
PyInt_Dec(w) == IF w[2] = 0 THEN <<w[1] - 1, 65535>> ELSE <<w[1], w[2] - 1>>
\* w & 0xffffffff
PyInt_And32(w) == <<w[1] % 65536, w[2]>>
\* 0 <= w <= 2^32 - 1
PyInt_IsU32(w) == w[1] \in 0..65535 /\ w[2] \in 0..65535

\* Packet(cmd): no attributes
Packet(cmd) ==
    [val |-> None, ok |-> TRUE, oid |-> 0, name |-> "", cmd |-> cmd, has |-> {},
     xid |-> PyInt(0), op |-> "", attr |-> <<>>, args |-> <<>>,
     result |-> None, error |-> None]

\* Packet.Has
Has(pkt, a) == a \in pkt.has

\* pkt.<a> = v through Packet.__setattr__
WithXid(pkt, v)    == [pkt EXCEPT !.has = @ \cup {"xid"}, !.xid = v]
WithOp(pkt, v)     == [pkt EXCEPT !.has = @ \cup {"op"}, !.op = v]
WithOid(pkt, v)    == [pkt EXCEPT !.has = @ \cup {"oid"}, !.oid = v]
WithAttr(pkt, v)   == [pkt EXCEPT !.has = @ \cup {"attr"}, !.attr = v]
WithName(pkt, v)   == [pkt EXCEPT !.has = @ \cup {"name"}, !.name = v]
WithVal(pkt, v)    == [pkt EXCEPT !.has = @ \cup {"val"}, !.val = v]
WithArgs(pkt, v)   == [pkt EXCEPT !.has = @ \cup {"args"}, !.args = v]
WithResult(pkt, v) == [pkt EXCEPT !.has = @ \cup {"result"}, !.result = v]
WithError(pkt, v)  == [pkt EXCEPT !.has = @ \cup {"error"}, !.error = v]

\* bytes that are no packet
Junk == [Packet(0) EXCEPT !.ok = FALSE]

-----------------------------------------------------------------------------
(* ObjectTranslator (service.py:123-140) and the packet's trip through     *)
(* str(pkt) and Packet.FromStr                                             *)

\* ObjectTranslator.Serialize: LONG(id(obj)) and the service's own address,
\* whatever the object is
ObjectTranslator_Serialize(n, obj) == Handle(IdOf(obj), n)

\* the names getattr(exceptions, ename, None) finds
BuiltinExceptions ==
    {"NameError", "KeyError", "RuntimeError", "ValueError", "AttributeError",
     "TypeError"}

\* ErrorSerializer.Serialize (serialize.py:283-285): type(obj).__name__ and
\* obj.args
ErrorSerializer_Serialize(e) == <<"error", e[2]>>

\* ErrorSerializer.Deserialize (serialize.py:287-294): the builtin exception
\* of that name, or RemoteException(ename, *args)
ErrorSerializer_Deserialize(w) ==
    IF w[2][1] \in BuiltinExceptions THEN <<"Exception", w[2]>>
    ELSE <<"Exception", <<"RemoteException", <<Str(w[2][1])>> \o w[2][2]>>>>

\* Serialize of one value at node n: objects go through the translator
RECURSIVE ToWire(_, _)
ToWire(n, v) ==
    IF IsObject(v) THEN ObjectTranslator_Serialize(n, v)
    ELSE IF TypeOf(v) = "Exception" THEN ErrorSerializer_Serialize(v)
    ELSE IF TypeOf(v) \in {"list", "tuple"}
         THEN <<TypeOf(v), [i \in 1..Len(v[2]) |-> ToWire(n, v[2][i])]>>
    ELSE v

\* the objects ObjectTranslator.Serialize meets in v, which it stores in
\* srv.omap under their ids
RECURSIVE ObjectsIn(_)
ObjectsIn(v) ==
    IF IsObject(v) THEN {v}
    ELSE IF TypeOf(v) \in {"list", "tuple"}
         THEN UNION {ObjectsIn(v[2][i]) : i \in 1..Len(v[2])}
    ELSE {}

\* the values of a packet that can hold objects, in the order
\* MapSerializer writes the attributes (sorted by name)
PacketValues(pkt) ==
    (IF Has(pkt, "args") THEN <<<<"tuple", pkt.args>>>> ELSE <<>>)
        \o (IF Has(pkt, "result") THEN <<pkt.result>> ELSE <<>>)
        \o (IF Has(pkt, "val") THEN <<pkt.val>> ELSE <<>>)

PacketObjects(pkt) ==
    UNION {ObjectsIn(PacketValues(pkt)[i]) : i \in 1..Len(PacketValues(pkt))}

\* str(pkt) at node n: the datagram's bytes
PacketStr(n, pkt) ==
    [pkt EXCEPT !.args = [i \in 1..Len(pkt.args) |-> ToWire(n, pkt.args[i])],
                !.result = ToWire(n, pkt.result),
                !.error = ToWire(n, pkt.error),
                !.val = ToWire(n, pkt.val)]

\* srv.omap after str(pkt): every object written is pinned under its id
OmapAfterStr(om, pkt) ==
    [k \in DOMAIN om \cup {IdOf(o) : o \in PacketObjects(pkt)} |->
        IF \E o \in PacketObjects(pkt) : IdOf(o) = k
        THEN CHOOSE o \in PacketObjects(pkt) : IdOf(o) = k
        ELSE om[k]]

\* the state a decode threads through: the service's clients, the next
\* fresh object id, and whether an exception was raised
Decoding(cl, nid) == [clients |-> cl, nextId |-> nid, ok |-> TRUE]

\* a broken ObjectTranslator.Deserialize that never looks at the address
ObjectTranslator_Deserialize_NoAddr(n, om, h, st) ==
    [v |-> Proxy(st.nextId, h[2][1], h[2][2]),
     st |-> [st EXCEPT !.clients = @ \cup {h[2][2]}, !.nextId = @ + 1]]

\* ObjectTranslator.Deserialize of the handle h at node n with omap om:
\* the local object, ValueError('Bad OID in serialized data'), or a new
\* Proxy on the client of the handle's address
ObjectTranslator_Deserialize(n, om, h, st) ==
    IF h[2][2] = n
    THEN IF h[2][1] \in DOMAIN om
         THEN [v |-> om[h[2][1]], st |-> st]
         ELSE [v |-> None, st |-> [st EXCEPT !.ok = FALSE]]
    ELSE [v |-> Proxy(st.nextId, h[2][1], h[2][2]),
          st |-> [st EXCEPT !.clients = @ \cup {h[2][2]}, !.nextId = @ + 1]]

\* Deserialize of one value; a list or tuple item by item
RECURSIVE FromWire(_, _, _, _)
RECURSIVE FromWireItems(_, _, _, _, _)
FromWireItems(n, om, ws, acc, st) ==
    IF ws = <<>> \/ ~st.ok THEN [v |-> acc, st |-> st]
    ELSE LET one == FromWire(n, om, Head(ws), st)
         IN  FromWireItems(n, om, Tail(ws), Append(acc, one.v), one.st)

FromWire(n, om, w, st) ==
    IF ~st.ok THEN [v |-> None, st |-> st]
    ELSE IF TypeOf(w) = "handle" THEN ObjectTranslator_Deserialize(n, om, w, st)
    ELSE IF TypeOf(w) = "error" THEN [v |-> ErrorSerializer_Deserialize(w), st |-> st]
    ELSE IF TypeOf(w) \in {"list", "tuple"}
         THEN LET items == FromWireItems(n, om, w[2], <<>>, st)
              IN  [v |-> <<TypeOf(w), items.v>>, st |-> items.st]
    ELSE [v |-> w, st |-> st]

\* Packet.FromStr(data) at node n: the packet, the clients and the next id
\* it leaves; ok is FALSE when an exception was raised (by then a handle
\* read earlier may already have created its client)
Packet_FromStr(n, om, data, cl, nid) ==
    IF ~data.ok THEN [clients |-> cl, nextId |-> nid, ok |-> FALSE, pkt |-> data]
    ELSE LET a == FromWireItems(n, om, data.args, <<>>, Decoding(cl, nid))
             r == FromWire(n, om, data.result, a.st)
             v == FromWire(n, om, data.val, r.st)
             e == FromWire(n, om, data.error, v.st)
         IN  [clients |-> e.st.clients,
              nextId |-> e.st.nextId,
              ok |-> e.st.ok,
              pkt |-> [data EXCEPT !.args = a.v, !.result = r.v, !.val = v.v,
                                   !.error = e.v]]

-----------------------------------------------------------------------------
(* Bounds of the service model *)

\* outbound requests one application thread of S makes, and the thread of T
MaxReq == 1
MaxPairReq == 4
\* datagrams the outside address sends
MaxInject == 2

-----------------------------------------------------------------------------
(* The state after construction (service.py:47-57, 92-97, 223-242) *)

\* the name of no Deferred: a thread's before its first request
NoDfr == <<"none", 0>>

\* the record of the last step of an I/O or worker thread, before any
NoEvent ==
    [pkt |-> Packet(0), kind |-> "none", node |-> "S", src |-> "S",
     wire |-> Packet(0), disp |-> "none", prev |-> "none", handler |-> "none",
     sent |-> <<>>, omap0 |-> <<>>, nid0 |-> 0, nid1 |-> 0,
     before |-> <<>>, after |-> <<>>]

NoReq == [pkt |-> Packet(0), kind |-> "none", dst |-> "S", blocking |-> FALSE]

\* the PULL a worker thread runs cmd_PULL_inner for, before it has any
NoJob == [pkt |-> Packet(0), src |-> "S"]

ThreadInit ==
    [k |-> 0, ret |-> None, d |-> NoDfr, xid |-> PyInt(0), pc |-> "idle", req |-> NoReq,
     tmp |-> PyInt(0), got |-> Packet(0), raised |-> FALSE, held |-> None,
     tmo |-> None, job |-> NoJob]

IoInit == [pkt |-> Packet(0), pc |-> "recv", snap |-> {}, seen |-> {}, size |-> 0]

\* the objects the application of a node starts with: object 1 has x = 42
\* and _s = 7, object 2 has x = object 1
HeapInit ==
    [k \in ObjIds |->
        IF k = 1 THEN (AttrX :> <<"int", 42>>) @@ (AttrSecret :> <<"int", 7>>)
        ELSE (AttrX :> Obj(1))]

\* the first id() above the application's objects
FirstFreeId == 3

\* Service.__init__ and the class attributes of Deferred
ServiceFields ==
    /\ omap = [n \in Nodes |-> <<>>]
    /\ pubmap = [n \in Nodes |-> <<>>]
    /\ outstanding = [n \in Nodes |-> <<>>]
    /\ clients = [n \in Nodes |-> {}]
    /\ WAITING = [n \in Nodes |-> {}]
    /\ TIMEOUT = [n \in Nodes |-> None]
    /\ lock = [n \in Nodes |-> "free"]
    /\ heap = [n \in Nodes |-> HeapInit]
    /\ nextId = [n \in Nodes |-> FirstFreeId]
    /\ net = EmptyBag
    /\ io = [n \in Nodes |-> IoInit]
    /\ workers = [n \in Nodes |-> <<>>]
    /\ thr = [t \in Threads |-> ThreadInit]
    /\ dfr = <<>>
    /\ inj = 0
    /\ last = NoEvent

\* every node is a process of its own that has constructed its Service:
\* the ObjectTranslator registered in the process is that of its Service
OneServiceEach ==
    /\ translator = [n \in Nodes |-> n]
    /\ services = Nodes

\* the class attribute Service.XID = 0, and the services constructed
ServiceInit == XID = [n \in Nodes |-> PyInt(0)] /\ ServiceFields /\ OneServiceEach

\* the codec harness at rest, for the specifications of the service
CodecIdle ==
    /\ cval = None /\ calt = None /\ cdepth = 0
    /\ cwire = <<>> /\ caltwire = <<>> /\ cdec = Raised /\ cwire2 = <<>>
    /\ cpc = "build"

-----------------------------------------------------------------------------
(* Deferred.SetTimeout (service.py:51-53) *)

\* the timeouts an application configures, in seconds
Timeouts == {<<"int", 1>>}

\* cls.TIMEOUT = tmout
SetTimeout(n, tmout) ==
    /\ TIMEOUT' = [TIMEOUT EXCEPT ![n] = tmout]
    /\ UNCHANGED <<XID, omap, pubmap, outstanding, clients, WAITING, lock, heap,
                   nextId, net, io, workers, thr, dfr, inj, last>>
    /\ UNCHANGED <<translator, services, cvars>>

-----------------------------------------------------------------------------
(* Service.__init__ (service.py:230-242) in a process that may hold other
   Services *)

\* Service.__init__ of the service n, in the process that also holds the
\* services peers: its fields start empty, and
\* serialize.SetSerializer(object, ObjectTranslator(self)) makes its
\* translator the one of the process
Service_Init(n, peers) ==
    /\ services' = services \cup {n}
    /\ translator' = [m \in Nodes |-> IF m = n \/ m \in peers THEN n ELSE translator[m]]
    /\ omap' = [omap EXCEPT ![n] = <<>>]
    /\ pubmap' = [pubmap EXCEPT ![n] = <<>>]
    /\ outstanding' = [outstanding EXCEPT ![n] = <<>>]
    /\ clients' = [clients EXCEPT ![n] = {}]
    /\ UNCHANGED <<XID, WAITING, TIMEOUT, lock, heap, nextId, net, io, workers,
                   thr, dfr, inj, last>>
    /\ UNCHANGED cvars

-----------------------------------------------------------------------------
(* Service.Register / Unregister (service.py:254-261) *)

\* a broken Register that only writes the directory
RegisterPin_NoPin(t, k, nm) ==
    /\ thr[t].pc = "idle"
    /\ thr' = [thr EXCEPT ![t].pc = "reg2",
                          ![t].req = [NoReq EXCEPT !.pkt = WithName(WithOid(Packet(0), k), nm)]]
    /\ UNCHANGED <<XID, omap, pubmap, outstanding, clients, WAITING, lock, heap,
                   nextId, net, io, workers, dfr, inj, last>>
    /\ UNCHANGED <<TIMEOUT, translator, services, cvars>>

\* Register(obj, name), first statement: self.omap[id(obj)] = obj
RegisterPin(t, k, nm) ==
    /\ thr[t].pc = "idle"
    /\ omap' = [omap EXCEPT ![Home(t)] = DictSet(@, k, Obj(k))]
    /\ thr' = [thr EXCEPT ![t].pc = "reg2",
                          ![t].req = [NoReq EXCEPT !.pkt = WithName(WithOid(Packet(0), k), nm)]]
    /\ UNCHANGED <<XID, pubmap, outstanding, clients, WAITING, lock, heap,
                   nextId, net, io, workers, dfr, inj, last>>
    /\ UNCHANGED <<TIMEOUT, translator, services, cvars>>

\* Register(obj, name), second statement: self.pubmap[name] = id(obj)
RegisterName(t) ==
    /\ thr[t].pc = "reg2"
    /\ pubmap' = [pubmap EXCEPT ![Home(t)] =
                      DictSet(@, thr[t].req.pkt.name, thr[t].req.pkt.oid)]
    /\ thr' = [thr EXCEPT ![t].pc = "idle", ![t].req = NoReq]
    /\ UNCHANGED <<XID, omap, outstanding, clients, WAITING, lock, heap,
                   nextId, net, io, workers, dfr, inj, last>>
    /\ UNCHANGED <<TIMEOUT, translator, services, cvars>>

\* Unregister(name): del self.pubmap[name], KeyError swallowed
Unregister(t, nm) ==
    /\ thr[t].pc = "idle"
    /\ pubmap' = [pubmap EXCEPT ![Home(t)] = DictDel(@, nm)]
    /\ UNCHANGED <<XID, omap, outstanding, clients, WAITING, lock, heap,
                   nextId, net, io, workers, thr, dfr, inj, last>>
    /\ UNCHANGED <<TIMEOUT, translator, services, cvars>>

-----------------------------------------------------------------------------
(* Outbound requests: Connect, Disconnect, Resolve, List and the calls of  *)
(* RemoteReference, all through SendPacket (service.py:149-194, 243-302)   *)

\* the requests an application can make
ReqConnect(a) ==
    [pkt |-> Packet(CMD_SYNC), kind |-> "Connect", dst |-> a, blocking |-> TRUE]
ReqDisconnect(a) ==
    [pkt |-> Packet(CMD_DESYNC), kind |-> "Disconnect", dst |-> a, blocking |-> FALSE]
ReqResolve(a, nm) ==
    [pkt |-> WithName(Packet(CMD_RESOLVE), nm), kind |-> "Resolve", dst |-> a,
     blocking |-> TRUE]
ReqList(a) ==
    [pkt |-> Packet(CMD_LIST), kind |-> "List", dst |-> a, blocking |-> TRUE]
\* RemoteReference.GetAttr / SetAttr / Call on the proxy p
ReqGetAttr(p, attr) ==
    [pkt |-> WithAttr(WithOid(WithOp(Packet(CMD_PULL), "GetAttr"), p[2][2]), attr),
     kind |-> "GetAttr",
     dst |-> p[2][3], blocking |-> TRUE]
ReqSetAttr(p, attr, val) ==
    [pkt |-> WithVal(WithAttr(WithOid(WithOp(Packet(CMD_PULL), "SetAttr"), p[2][2]),
                              attr), val),
     kind |-> "SetAttr",
     dst |-> p[2][3], blocking |-> TRUE]
ReqCall(p, args) ==
    [pkt |-> [WithArgs(WithOid(WithOp(Packet(CMD_PULL), "Call"), p[2][2]), args)
                 EXCEPT !.has = @ \cup {"kwargs"}],
     kind |-> "Call",
     dst |-> p[2][3], blocking |-> TRUE]

ReqBound(t) == IF Home(t) = "T" THEN MaxPairReq ELSE MaxReq

\* the thread enters Connect / Disconnect / Resolve / ... with request r.
\* Connect returns at once for a known address; Connect and Disconnect
\* create the Client through GetClient.
StartRequest(t, r) ==
    /\ thr[t].pc = "idle"
    /\ thr[t].k < ReqBound(t)
    /\ r.kind = "Connect" => r.dst \notin clients[Home(t)]
    /\ clients' = IF r.kind \in {"Connect", "Disconnect"}
                  THEN [clients EXCEPT ![Home(t)] = @ \cup {r.dst}]
                  ELSE clients
    /\ thr' = [thr EXCEPT ![t].pc = "new1", ![t].req = r, ![t].k = @ + 1]
    /\ UNCHANGED <<XID, omap, pubmap, outstanding, WAITING, lock, heap,
                   nextId, net, io, workers, dfr, inj, last>>
    /\ UNCHANGED <<TIMEOUT, translator, services, cvars>>

\* (x + 1) & 0xffffffff
XidSucc(x) == PyInt_And32(PyInt_Inc(x))

\* NewXID: the thread loads cls.XID
NewXID_Read(t) ==
    /\ thr[t].pc = "new1"
    /\ thr' = [thr EXCEPT ![t].pc = "new2", ![t].tmp = XID[Home(t)]]
    /\ UNCHANGED <<XID, omap, pubmap, outstanding, clients, WAITING, lock, heap,
                   nextId, net, io, workers, dfr, inj, last>>
    /\ UNCHANGED <<TIMEOUT, translator, services, cvars>>

\* NewXID: cls.XID = (loaded + 1) & 0xffffffff
NewXID_Write(t) ==
    /\ thr[t].pc = "new2"
    /\ XID' = [XID EXCEPT ![Home(t)] = XidSucc(thr[t].tmp)]
    /\ thr' = [thr EXCEPT ![t].pc = "new3"]
    /\ UNCHANGED <<omap, pubmap, outstanding, clients, WAITING, lock, heap,
                   nextId, net, io, workers, dfr, inj, last>>
    /\ UNCHANGED <<TIMEOUT, translator, services, cvars>>

\* NewXID: return cls.XID - 1
NewXID_Return(t) ==
    /\ thr[t].pc = "new3"
    /\ thr' = [thr EXCEPT ![t].pc = "store", ![t].xid = PyInt_Dec(XID[Home(t)])]
    /\ UNCHANGED <<XID, omap, pubmap, outstanding, clients, WAITING, lock, heap,
                   nextId, net, io, workers, dfr, inj, last>>
    /\ UNCHANGED <<TIMEOUT, translator, services, cvars>>

\* DeferredResult.__init__
NewDeferred(n, xid) ==
    [xid |-> xid, result |-> Packet(0), srv |-> n, queue |-> <<>>,
     ready |-> FALSE, dropped |-> {}]

\* SendPacket: act = DeferredResult(self, xid, onwait); outstanding[xid] = act.
\* A blocking caller goes on into Wait; any other caller gets the Deferred.
SendPacket_Store(t) ==
    LET d == <<t, thr[t].k>>
    IN  /\ thr[t].pc = "store"
        /\ dfr' = (d :> NewDeferred(Home(t), thr[t].xid)) @@ dfr
        /\ outstanding' = [outstanding EXCEPT ![Home(t)] = DictSet(@, thr[t].xid, d)]
        /\ thr' = [thr EXCEPT ![t].pc = IF thr[t].req.blocking THEN "acquire" ELSE "idle",
                              ![t].d = d]
        /\ UNCHANGED <<XID, omap, pubmap, clients, WAITING, lock, heap,
                       nextId, net, io, workers, inj, last>>
        /\ UNCHANGED <<TIMEOUT, translator, services, cvars>>

-----------------------------------------------------------------------------
(* Deferred.Wait and DeferredResult.Wait in the calling thread             *)
(* (service.py:58-78, 98-115).  CONDITION is one lock for the process.     *)

\* sock.sendto: a datagram for a node is in flight; the outside address is
\* no receiver of this model, what is sent to it is only recorded
Datagram(src, dst, data) == [data |-> data, src |-> src, dst |-> dst]
NetAfter(nt, dg) == IF dg.dst \in Nodes THEN nt (+) SetToBag({dg}) ELSE nt

\* with self.CONDITION: the thread takes the lock
Wait_Acquire(t) ==
    /\ thr[t].pc = "acquire"
    /\ lock[Home(t)] = "free"
    /\ lock' = [lock EXCEPT ![Home(t)] = t]
    /\ thr' = [thr EXCEPT ![t].pc = "go"]
    /\ UNCHANGED <<XID, omap, pubmap, outstanding, clients, WAITING, heap,
                   nextId, net, io, workers, dfr, inj, last>>
    /\ UNCHANGED <<TIMEOUT, translator, services, cvars>>

\* Go: self.WAITING.add(self)
Go_Add(t) ==
    /\ thr[t].pc = "go"
    /\ WAITING' = [WAITING EXCEPT ![Home(t)] = @ \cup {thr[t].d}]
    /\ thr' = [thr EXCEPT ![t].pc = "onwait"]
    /\ UNCHANGED <<XID, omap, pubmap, outstanding, clients, lock, heap,
                   nextId, net, io, workers, dfr, inj, last>>
    /\ UNCHANGED <<TIMEOUT, translator, services, cvars>>

\* Go: self.onwait(), the closure of SendPacket:
\* sock.sendto(str(Packet(cmd, xid=xid, **kwargs)), cli.addr)
Go_OnWait(t) ==
    LET n == Home(t)
        pkt == WithXid(thr[t].req.pkt, thr[t].xid)
    IN  /\ thr[t].pc = "onwait"
        /\ omap' = [omap EXCEPT ![translator[n]] = OmapAfterStr(@, pkt)]
        /\ net' = NetAfter(net, Datagram(n, thr[t].req.dst,
                                         PacketStr(translator[n], pkt)))
        /\ thr' = [thr EXCEPT ![t].pc = "wait"]
        /\ UNCHANGED <<XID, pubmap, outstanding, clients, WAITING, lock, heap,
                       nextId, io, workers, dfr, inj, last>>
        /\ UNCHANGED <<TIMEOUT, translator, services, cvars>>

\* self.CONDITION.wait(self.TIMEOUT): the lock is released and the thread
\* sleeps, for at most the timeout read now
Wait_Sleep(t) ==
    /\ thr[t].pc = "wait"
    /\ lock' = [lock EXCEPT ![Home(t)] = "free"]
    /\ thr' = [thr EXCEPT ![t].pc = "sleep", ![t].tmo = TIMEOUT[Home(t)]]
    /\ UNCHANGED <<XID, omap, pubmap, outstanding, clients, WAITING, heap,
                   nextId, net, io, workers, dfr, inj, last>>
    /\ UNCHANGED <<TIMEOUT, translator, services, cvars>>

\* the timeout of wait() has passed without a notify
Wait_Timeout(t) ==
    /\ thr[t].pc = "sleep"
    /\ thr[t].tmo # None
    /\ thr' = [thr EXCEPT ![t].pc = "notified"]
    /\ UNCHANGED <<XID, omap, pubmap, outstanding, clients, WAITING, lock, heap,
                   nextId, net, io, workers, dfr, inj, last>>
    /\ UNCHANGED <<TIMEOUT, translator, services, cvars>>

\* a notified or timed-out thread takes the lock again before wait() returns
Wait_Reacquire(t) ==
    /\ thr[t].pc = "notified"
    /\ lock[Home(t)] = "free"
    /\ lock' = [lock EXCEPT ![Home(t)] = t]
    /\ thr' = [thr EXCEPT ![t].pc = "process"]
    /\ UNCHANGED <<XID, omap, pubmap, outstanding, clients, WAITING, heap,
                   nextId, net, io, workers, dfr, inj, last>>
    /\ UNCHANGED <<TIMEOUT, translator, services, cvars>>

\* a broken filter that takes any packet
Filt_Any(xid, obj) == obj.xid = obj.xid

\* the filter of DeferredResult: lambda obj: obj.xid == self.xid
Filt(xid, obj) == obj.xid = xid

\* Process: the index of the first queued packet the filter takes, 0 if none
FirstMatch(q, xid) ==
    IF \E i \in 1..Len(q) : Filt(xid, q[i])
    THEN MinOf({i \in 1..Len(q) : Filt(xid, q[i])})
    ELSE 0

\* Process finds a match: WAITING.discard(self), Wait returns the packet
\* and leaves the `with` block
Wait_Process_Catch(t) ==
    LET d == thr[t].d
        q == dfr[d].queue
        i == FirstMatch(q, dfr[d].xid)
    IN  /\ thr[t].pc = "process"
        /\ i > 0
        /\ WAITING' = [WAITING EXCEPT ![Home(t)] = @ \ {d}]
        /\ dfr' = [dfr EXCEPT ![d].queue = SubSeq(q, i + 1, Len(q)),
                              ![d].dropped = @ \cup {q[j].xid : j \in 1..(i - 1)}]
        /\ lock' = [lock EXCEPT ![Home(t)] = "free"]
        /\ thr' = [thr EXCEPT ![t].pc = "finish", ![t].got = q[i]]
        /\ UNCHANGED <<XID, omap, pubmap, outstanding, clients, heap,
                       nextId, net, io, workers, inj, last>>
        /\ UNCHANGED <<TIMEOUT, translator, services, cvars>>

\* Process empties the queue without a match: the thread waits again
Wait_Process_Miss(t) ==
    LET d == thr[t].d
        q == dfr[d].queue
    IN  /\ thr[t].pc = "process"
        /\ FirstMatch(q, dfr[d].xid) = 0
        /\ dfr' = [dfr EXCEPT ![d].queue = <<>>,
                              ![d].dropped = @ \cup {q[j].xid : j \in 1..Len(q)}]
        /\ lock' = [lock EXCEPT ![Home(t)] = "free"]
        /\ thr' = [thr EXCEPT ![t].pc = "sleep", ![t].tmo = TIMEOUT[Home(t)]]
        /\ UNCHANGED <<XID, omap, pubmap, outstanding, clients, WAITING, heap,
                       nextId, net, io, workers, inj, last>>
        /\ UNCHANGED <<TIMEOUT, translator, services, cvars>>

\* DeferredResult.GetResult on a ready Deferred: the name `pkt` is not
\* defined in GetResult, so reaching `raise pkt.result.error` raises
\* NameError; without an error the result attribute is returned
GetResult(result) ==
    IF Has(result, "error")
    THEN [v |-> Exc("NameError", Str("global name 'pkt' is not defined")),
          raised |-> TRUE]
    ELSE IF Has(result, "result") THEN [v |-> result.result, raised |-> FALSE]
    ELSE [v |-> Exc("KeyError", Str("result")), raised |-> TRUE]

\* DeferredResult.Wait after Deferred.Wait returned: self.result = packet,
\* del self.srv.outstanding[self.xid] (KeyError swallowed), self.ready = True,
\* return self.GetResult().  Connect drops the value and returns the client.
Wait_Finish(t) ==
    LET d == thr[t].d
        out == GetResult(thr[t].got)
    IN  /\ thr[t].pc = "finish"
        /\ dfr' = [dfr EXCEPT ![d].result = thr[t].got, ![d].ready = TRUE]
        /\ outstanding' = [outstanding EXCEPT ![Home(t)] = DictDel(@, dfr[d].xid)]
        /\ thr' = [thr EXCEPT ![t].pc = "returned",
                              ![t].raised = out.raised,
                              ![t].ret = IF thr[t].req.kind = "Connect" /\ ~out.raised
                                         THEN <<"client", thr[t].req.dst>> ELSE out.v]
        /\ UNCHANGED <<XID, omap, pubmap, clients, WAITING, lock, heap,
                       nextId, net, io, workers, inj, last>>
        /\ UNCHANGED <<TIMEOUT, translator, services, cvars>>

\* the application takes the outcome of its call; it keeps a proxy it got
Continue(t) ==
    /\ thr[t].pc = "returned"
    /\ thr' = [thr EXCEPT ![t].pc = "idle",
                          ![t].held = IF ~thr[t].raised /\ TypeOf(thr[t].ret) = "proxy"
                                      THEN thr[t].ret ELSE @]
    /\ UNCHANGED <<XID, omap, pubmap, outstanding, clients, WAITING, lock, heap,
                   nextId, net, io, workers, dfr, inj, last>>
    /\ UNCHANGED <<TIMEOUT, translator, services, cvars>>

-----------------------------------------------------------------------------
(* The I/O thread: Service.run and the cmd_ handlers (service.py:303-350)  *)

\* Authorizor.CanClientSync
CanClientSync(cli) == TRUE

\* a broken Authorizor.CanClientAccess that lets every attribute through
CanClientAccess_Open(pkt) == Has(pkt, "attr") => TRUE

\* Authorizor.CanClientAccess: not pkt.attr.startswith('_')
CanClientAccess(pkt) ==
    Has(pkt, "attr") => ~(Len(pkt.attr) > 0 /\ pkt.attr[1] = 95)

\* what a handler of the I/O thread does: it raises out of run (crash), or
\* leaves the clients `clients`, replies with the packets `out` and starts
\* `spawn` worker threads
Handled(cl, out, spawn) ==
    [clients |-> cl, out |-> out, spawn |-> spawn, crash |-> FALSE]
Crashed(cl) == [clients |-> cl, out |-> <<>>, spawn |-> FALSE, crash |-> TRUE]

\* cmd_SYNC: pkt.xid raises KeyError when the request carries none
cmd_SYNC(pkt, src, cl) ==
    IF ~Has(pkt, "xid") THEN Crashed(cl)
    ELSE IF CanClientSync(src)
    THEN Handled(cl, <<WithResult(WithXid(Packet(CMD_SYNC), pkt.xid),
                                  <<"bool", TRUE>>)>>, FALSE)
    ELSE Handled(cl \ {src}, <<WithResult(WithXid(Packet(CMD_SYNC), pkt.xid),
                                          <<"bool", FALSE>>)>>, FALSE)

\* a broken cmd_DESYNC that keeps the entry
cmd_DESYNC_Keep(pkt, src, cl) == Handled(cl, <<>>, FALSE)

\* cmd_DESYNC: del self.clients[cli.addr]
cmd_DESYNC(pkt, src, cl) == Handled(cl \ {src}, <<>>, FALSE)

\* cmd_PULL: threading.Thread(target=self.cmd_PULL_inner, ...).start()
cmd_PULL(pkt, src, cl) == Handled(cl, <<>>, TRUE)

\* pubmap.keys() as a list, in one order
RECURSIVE KeysList(_)
KeysList(S) ==
    IF S = {} THEN <<>>
    ELSE LET k == CHOOSE x \in S : TRUE IN <<Str(k)>> \o KeysList(S \ {k})

\* cmd_RESOLVE: pkt.name raises KeyError when absent, and so does
\* self.omap[...] for an id that is not pinned
cmd_RESOLVE(pkt, src, cl, om, pm) ==
    IF ~Has(pkt, "name") THEN Crashed(cl)
    ELSE IF pkt.name \in DOMAIN pm
    THEN IF pm[pkt.name] \in DOMAIN om
         THEN Handled(cl, <<WithResult(pkt, om[pm[pkt.name]])>>, FALSE)
         ELSE Crashed(cl)
    ELSE Handled(cl, <<WithError(pkt, Exc("NameError", Str("No such name")))>>, FALSE)

\* a broken cmd_LIST that answers under no xid
cmd_LIST_NoXid(pkt, src, cl, pm) ==
    Handled(cl, <<WithResult(Packet(pkt.cmd), <<"list", KeysList(DOMAIN pm)>>)>>, FALSE)

\* cmd_LIST
cmd_LIST(pkt, src, cl, pm) ==
    Handled(cl, <<WithResult(pkt, <<"list", KeysList(DOMAIN pm)>>)>>, FALSE)

\* cmd_Unknown
cmd_Unknown(pkt, src, cl) ==
    Handled(cl, <<WithError(pkt, Exc("NameError", Str("Unknown command")))>>, FALSE)

\* getattr(self, 'cmd_' + CMD.NAMES[pkt.cmd], self.cmd_Unknown)(pkt, cli):
\* KeyError for a command byte that CMD.NAMES does not hold
Dispatch(pkt, src, cl, om, pm) ==
    IF pkt.cmd \notin DOMAIN CMD_NAMES THEN Crashed(cl)
    ELSE CASE CMD_NAMES[pkt.cmd] = "SYNC"    -> cmd_SYNC(pkt, src, cl)
           [] CMD_NAMES[pkt.cmd] = "DESYNC"  -> cmd_DESYNC(pkt, src, cl)
           [] CMD_NAMES[pkt.cmd] = "PULL"    -> cmd_PULL(pkt, src, cl)
           [] CMD_NAMES[pkt.cmd] = "RESOLVE" -> cmd_RESOLVE(pkt, src, cl, om, pm)
           [] CMD_NAMES[pkt.cmd] = "LIST"    -> cmd_LIST(pkt, src, cl, pm)
           [] OTHER                          -> cmd_Unknown(pkt, src, cl)

\* the handler run chooses for the packet
DispatchName(pkt) ==
    IF pkt.cmd \notin DOMAIN CMD_NAMES THEN "KeyError"
    ELSE IF CMD_NAMES[pkt.cmd] \in {"SYNC", "DESYNC", "PULL", "RESOLVE", "LIST"}
    THEN CMD_NAMES[pkt.cmd]
    ELSE "Unknown"

\* the datagrams the replies `out` make, and omap after writing them
Replies(n, dst, out) ==
    [i \in 1..Len(out) |-> Datagram(n, dst, PacketStr(translator[n], out[i]))]
RECURSIVE OmapAfterAll(_, _)
OmapAfterAll(om, out) ==
    IF out = <<>> THEN om ELSE OmapAfterAll(OmapAfterStr(om, Head(out)), Tail(out))
RECURSIVE NetAfterAll(_, _)
NetAfterAll(nt, dgs) ==
    IF dgs = <<>> THEN nt ELSE NetAfterAll(NetAfter(nt, Head(dgs)), Tail(dgs))

\* one turn of the loop of run: recvfrom, GetClient(src), Packet.FromStr,
\* then SendAll for a reply or the handler of the command
Run_Recv(n, dg) ==
    LET cl1 == clients[n] \cup {dg.src}
        tr == translator[n]
        dec == Packet_FromStr(tr, omap[tr], dg.data,
                              IF tr = n THEN cl1 ELSE clients[tr], nextId[tr])
        own == IF tr = n THEN dec.clients ELSE cl1
        isReply == Has(dec.pkt, "result") \/ Has(dec.pkt, "error")
        h == IF dec.ok /\ ~isReply
             THEN Dispatch(dec.pkt, dg.src, own, omap[n], pubmap[n])
             ELSE Handled(own, <<>>, FALSE)
        sent == Replies(n, dg.src, h.out)
    IN  /\ io[n].pc = "recv"
        /\ BagIn(dg, net)
        /\ dg.dst = n
        /\ clients' = [[clients EXCEPT ![tr] = dec.clients] EXCEPT ![n] = h.clients]
        /\ nextId' = [nextId EXCEPT ![tr] = dec.nextId]
        /\ omap' = [omap EXCEPT ![tr] = OmapAfterAll(@, h.out)]
        /\ net' = NetAfterAll(net (-) SetToBag({dg}), sent)
        /\ workers' = [workers EXCEPT ![n] =
                          IF h.spawn THEN Append(@, [pkt |-> dec.pkt, src |-> dg.src])
                          ELSE @]
        /\ io' = [io EXCEPT ![n] =
                     IF ~dec.ok THEN @
                     ELSE IF isReply
                     THEN [pkt |-> dec.pkt, pc |-> "sendall", snap |-> WAITING[n],
                           seen |-> {}, size |-> Cardinality(WAITING[n])]
                     ELSE IF h.crash THEN [@ EXCEPT !.pc = "dead"]
                     ELSE @]
        /\ last' = [pkt |-> dec.pkt, kind |-> "recv", node |-> n, src |-> dg.src,
                    wire |-> dg.data,
                    disp |-> IF ~dec.ok THEN "error"
                             ELSE IF isReply THEN "reply"
                             ELSE DispatchName(dec.pkt),
                    prev |-> last.disp, handler |-> "none", sent |-> sent,
                    omap0 |-> omap[n], nid0 |-> nextId[tr], nid1 |-> dec.nextId,
                    before |-> clients[n], after |-> h.clients]
        /\ UNCHANGED <<XID, pubmap, outstanding, WAITING, lock, heap, thr, dfr, inj>>
        /\ UNCHANGED <<TIMEOUT, translator, services, cvars>>

\* SendAll, one turn of `for inst in cls.WAITING`: the iterator yields a
\* waiter it has not yielded, and DeferredResult.Accept runs on it.  The
\* filter reads ev.xid, which raises KeyError out of run when there is none.
SendAll_Accept(n, inst) ==
    LET ev == io[n].pkt
    IN  /\ io[n].pc = "sendall"
        /\ Cardinality(WAITING[n]) = io[n].size
        /\ inst \in WAITING[n] \ io[n].seen
        /\ IF ~Has(ev, "xid")
           THEN /\ io' = [io EXCEPT ![n].pc = "dead"]
                /\ dfr' = dfr
           ELSE /\ io' = [io EXCEPT ![n].seen = @ \cup {inst}]
                /\ dfr' = [dfr EXCEPT ![inst] =
                              IF Filt(dfr[inst].xid, ev)
                              THEN [@ EXCEPT !.result = ev, !.ready = TRUE,
                                             !.queue = Append(@, ev)]
                              ELSE [@ EXCEPT !.queue = Append(@, ev)]]
        /\ UNCHANGED <<XID, omap, pubmap, outstanding, clients, WAITING, lock, heap,
                       nextId, net, workers, thr, inj, last>>
        /\ UNCHANGED <<TIMEOUT, translator, services, cvars>>

\* SendAll: the set iterator finds that WAITING changed size since the loop
\* began and raises RuntimeError out of run
SendAll_Changed(n) ==
    /\ io[n].pc = "sendall"
    /\ Cardinality(WAITING[n]) # io[n].size
    /\ io' = [io EXCEPT ![n].pc = "dead"]
    /\ UNCHANGED <<XID, omap, pubmap, outstanding, clients, WAITING, lock, heap,
                   nextId, net, workers, thr, dfr, inj, last>>
    /\ UNCHANGED <<TIMEOUT, translator, services, cvars>>

\* SendAll: the iterator is exhausted
SendAll_Done(n) ==
    /\ io[n].pc = "sendall"
    /\ Cardinality(WAITING[n]) = io[n].size
    /\ (io[n].snap \cap WAITING[n]) \subseteq io[n].seen
    /\ io' = [io EXCEPT ![n].pc = "wake"]
    /\ UNCHANGED <<XID, omap, pubmap, outstanding, clients, WAITING, lock, heap,
                   nextId, net, workers, thr, dfr, inj, last>>
    /\ UNCHANGED <<TIMEOUT, translator, services, cvars>>

\* Wake: with cls.CONDITION: cls.CONDITION.notify_all()
Wake_Unlocked(n) ==
    /\ io[n].pc = "wake"
    /\ thr' = [t \in Threads |->
                  IF Home(t) = n /\ thr[t].pc = "sleep"
                  THEN [thr[t] EXCEPT !.pc = "notified"] ELSE thr[t]]
    /\ io' = [io EXCEPT ![n].pc = "recv"]
    /\ UNCHANGED <<XID, omap, pubmap, outstanding, clients, WAITING, lock, heap,
                   nextId, net, workers, dfr, inj, last>>
    /\ UNCHANGED <<TIMEOUT, translator, services, cvars>>

Wake(n) ==
    /\ io[n].pc = "wake"
    /\ lock[n] = "free"
    /\ thr' = [t \in Threads |->
                  IF Home(t) = n /\ thr[t].pc = "sleep"
                  THEN [thr[t] EXCEPT !.pc = "notified"] ELSE thr[t]]
    /\ io' = [io EXCEPT ![n].pc = "recv"]
    /\ UNCHANGED <<XID, omap, pubmap, outstanding, clients, WAITING, lock, heap,
                   nextId, net, workers, dfr, inj, last>>
    /\ UNCHANGED <<TIMEOUT, translator, services, cvars>>

-----------------------------------------------------------------------------
(* The objects of the application behind proxy.ReverseProxy                *)
(* (proxy.py:45-67).  An object is a bag of attributes; reading its        *)
(* attribute `boom` raises ValueError("nope"); called with one argument it *)
(* returns the argument.                                                   *)

\* "boom"
AttrBoom == <<98, 111, 111, 109>>

Returned(v, attrs) == [v |-> v, raised |-> FALSE, attrs |-> attrs]
Threw(e, attrs) == [v |-> e, raised |-> TRUE, attrs |-> attrs]

\* ReverseProxy.GetAttr: getattr(self._obj, attr)
ReverseProxy_GetAttr(h, attr) ==
    IF attr = AttrBoom THEN Threw(Exc("ValueError", Str("nope")), h)
    ELSE IF attr \in DOMAIN h THEN Returned(h[attr], h)
    ELSE Threw(Exc("AttributeError", Str("no such attribute")), h)

\* ReverseProxy.SetAttr: setattr(self._obj, attr, val)
ReverseProxy_SetAttr(h, attr, val) ==
    IF attr = AttrBoom THEN Threw(Exc("AttributeError", Str("can't set attribute")), h)
    ELSE Returned(None, DictSet(h, attr, val))

\* ReverseProxy.DelAttr: delattr(self._obj, attr)
ReverseProxy_DelAttr(h, attr) ==
    IF attr \in DOMAIN h THEN Returned(None, DictDel(h, attr))
    ELSE Threw(Exc("AttributeError", Str("no such attribute")), h)

\* ReverseProxy.Call: self._obj(*args, **kwargs)
ReverseProxy_Call(h, args) ==
    IF Len(args) = 1 THEN Returned(args[1], h)
    ELSE Threw(Exc("TypeError", Str("takes exactly 1 argument")), h)

\* the pull_ methods of Service
PullOps ==
    {"GetAttr", "SetAttr", "DelAttr", "GetItem", "SetItem", "DelItem", "Len",
     "Repr", "Str", "Call"}

\* getattr(self, 'pull_' + pkt.op, self.pull_Unknown)
PullHandlerName(pkt) == IF pkt.op \in PullOps THEN pkt.op ELSE "Unknown"

\* the first attribute of `need` the packet lacks: pkt.<a> raises KeyError(a)
Missing(pkt, need) ==
    IF \E i \in 1..Len(need) : ~Has(pkt, need[i])
    THEN need[MinOf({i \in 1..Len(need) : ~Has(pkt, need[i])})]
    ELSE ""

\* the attributes of the packet pull_<op> reads
PullNeeds(op) ==
    CASE op \in {"GetAttr", "DelAttr"} -> <<"attr">>
      [] op = "SetAttr" -> <<"attr", "val">>
      [] op \in {"GetItem", "DelItem"} -> <<"item">>
      [] op = "SetItem" -> <<"item", "val">>
      [] op = "Call" -> <<"args", "kwargs">>
      [] OTHER -> <<>>

\* pull_<op>(ReverseProxy(obj), pkt, cli) on the object with attributes h
\* (service.py:351-373).  The objects are no containers and have no length.
Pull(pkt, h) ==
    LET op == PullHandlerName(pkt)
        need == PullNeeds(op)
    IN  IF Missing(pkt, need) # "" THEN Threw(Exc("KeyError", Str(Missing(pkt, need))), h)
        ELSE CASE op = "GetAttr" -> ReverseProxy_GetAttr(h, pkt.attr)
               [] op = "SetAttr" -> ReverseProxy_SetAttr(h, pkt.attr, pkt.val)
               [] op = "DelAttr" -> ReverseProxy_DelAttr(h, pkt.attr)
               [] op \in {"GetItem", "SetItem", "DelItem"} ->
                      Threw(Exc("TypeError", Str("object does not support items")), h)
               [] op = "Len" -> Threw(Exc("TypeError", Str("object has no len()")), h)
               [] op \in {"Repr", "Str"} -> Returned(Str("<object>"), h)
               [] op = "Call" -> ReverseProxy_Call(h, pkt.args)
               [] OTHER -> Returned(None, h)

\* the attributes of the object with id oid; a Proxy has none of its own
AttrsOf(hp, oid) == IF oid \in DOMAIN hp THEN hp[oid] ELSE <<>>

\* cmd_PULL_inner up to the reply (service.py:328-337): what was raised or
\* returned, the object's attributes afterwards, and the handler that ran
PullInner(pkt, om, hp) ==
    IF ~Has(pkt, "oid")
    THEN [handler |-> "none", out |-> Threw(Exc("KeyError", Str("oid")), <<>>)]
    ELSE IF pkt.oid \notin DOMAIN om
    THEN [handler |-> "none", out |-> Threw(Exc("KeyError", <<"long", pkt.oid>>), <<>>)]
    ELSE IF ~CanClientAccess(pkt)
    THEN [handler |-> "none",
          out |-> Threw(Exc("RuntimeError", Str("Access denied")), AttrsOf(hp, pkt.oid))]
    ELSE IF ~Has(pkt, "op")
    THEN [handler |-> "none", out |-> Threw(Exc("KeyError", Str("op")), AttrsOf(hp, pkt.oid))]
    ELSE [handler |-> PullHandlerName(pkt), out |-> Pull(pkt, AttrsOf(hp, pkt.oid))]

\* the reply of cmd_PULL_inner: the request with result set, or with error
\* set; pull_Unknown sets error itself and its None becomes the result
PullReply(pkt, r) ==
    IF r.out.raised THEN WithError(pkt, r.out.v)
    ELSE IF r.handler = "Unknown"
    THEN WithResult(WithError(pkt, Exc("NameError", Str("Unknown pull"))), r.out.v)
    ELSE WithResult(pkt, r.out.v)

\* the handler of the PULL reaches a method of a pinned Proxy, which calls
\* the owner of the proxy's object in turn (proxy.py:14-43)
CallsProxy(pkt, om) ==
    /\ Has(pkt, "oid")
    /\ pkt.oid \in DOMAIN om
    /\ TypeOf(om[pkt.oid]) = "proxy"
    /\ CanClientAccess(pkt)
    /\ Has(pkt, "op")
    /\ pkt.op \in PullOps
    /\ Missing(pkt, PullNeeds(pkt.op)) = ""

\* a worker thread runs cmd_PULL_inner to its end, on an object of the
\* application or up to an exception raised before the object is used
cmd_PULL_inner(n, i) ==
    LET job == workers[n][i]
        pkt == job.pkt
        r == PullInner(pkt, omap[n], heap[n])
        reply == PullReply(pkt, r)
        dg == Datagram(n, job.src, PacketStr(translator[n], reply))
        known == Has(pkt, "oid") /\ pkt.oid \in DOMAIN omap[n]
        onHeap == known /\ pkt.oid \in DOMAIN heap[n]
    IN  /\ i \in 1..Len(workers[n])
        /\ ~CallsProxy(pkt, omap[n])
        /\ workers' = [workers EXCEPT ![n] = SubSeq(@, 1, i - 1) \o SubSeq(@, i + 1, Len(@))]
        /\ heap' = IF onHeap THEN [heap EXCEPT ![n][pkt.oid] = r.out.attrs] ELSE heap
        /\ omap' = [omap EXCEPT ![translator[n]] = OmapAfterStr(@, reply)]
        /\ net' = NetAfter(net, dg)
        /\ last' = [pkt |-> pkt, kind |-> "pull", node |-> n, src |-> job.src,
                    wire |-> pkt, disp |-> "pull", prev |-> last.disp,
                    handler |-> r.handler, sent |-> <<dg>>,
                    omap0 |-> omap[n], nid0 |-> nextId[n], nid1 |-> nextId[n],
                    before |-> heap[n],
                    after |-> IF onHeap THEN [heap[n] EXCEPT ![pkt.oid] = r.out.attrs]
                              ELSE heap[n]]
        /\ UNCHANGED <<XID, pubmap, outstanding, clients, WAITING, lock,
                       nextId, io, thr, dfr, inj>>
        /\ UNCHANGED <<TIMEOUT, translator, services, cvars>>

\* the operations of a Proxy that RemoteReference forwards and waits for
NestedOps == {"GetAttr", "SetAttr", "Call"}

\* RemoteReference.GetAttr / SetAttr / Call of the proxy obj, for the PULL pkt
NestedRequest(obj, pkt) ==
    CASE pkt.op = "GetAttr" -> ReqGetAttr(obj, pkt.attr)
      [] pkt.op = "SetAttr" -> ReqSetAttr(obj, pkt.attr, pkt.val)
      [] pkt.op = "Call"    -> ReqCall(obj, pkt.args)

\* cmd_PULL_inner on a pinned Proxy: the worker thread t enters the blocking
\* call of RemoteReference, through SendPacket and Wait like any caller.
\* The other operations of a Proxy are left in their call.
Worker_Call(n, i, t) ==
    LET job == workers[n][i]
    IN  /\ i \in 1..Len(workers[n])
        /\ Home(t) = n
        /\ thr[t].pc = "idle"
        /\ CallsProxy(job.pkt, omap[n])
        /\ job.pkt.op \in NestedOps
        /\ workers' = [workers EXCEPT ![n] = SubSeq(@, 1, i - 1) \o SubSeq(@, i + 1, Len(@))]
        /\ thr' = [thr EXCEPT ![t].pc = "new1",
                              ![t].req = NestedRequest(omap[n][job.pkt.oid], job.pkt),
                              ![t].k = @ + 1,
                              ![t].job = job]
        /\ UNCHANGED <<XID, omap, pubmap, outstanding, clients, WAITING, lock, heap,
                       nextId, net, io, dfr, inj, last>>
        /\ UNCHANGED <<TIMEOUT, translator, services, cvars>>

\* cmd_PULL_inner after the call on the Proxy came back: pkt.result is what
\* the pull_ method returns, pkt.error what the call raised; the reply goes
\* to the sender of the PULL
Worker_Reply(t) ==
    LET n == Home(t)
        job == thr[t].job
        pkt == job.pkt
        reply == IF thr[t].raised THEN WithError(pkt, thr[t].ret)
                 ELSE WithResult(pkt, IF pkt.op = "SetAttr" THEN None ELSE thr[t].ret)
        dg == Datagram(n, job.src, PacketStr(translator[n], reply))
    IN  /\ thr[t].pc = "returned"
        /\ thr' = [thr EXCEPT ![t].pc = "idle", ![t].job = NoJob]
        /\ omap' = [omap EXCEPT ![translator[n]] = OmapAfterStr(@, reply)]
        /\ net' = NetAfter(net, dg)
        /\ last' = [pkt |-> pkt, kind |-> "pull", node |-> n, src |-> job.src,
                    wire |-> pkt, disp |-> "pull", prev |-> last.disp,
                    handler |-> pkt.op, sent |-> <<dg>>,
                    omap0 |-> omap[n], nid0 |-> nextId[n], nid1 |-> nextId[n],
                    before |-> heap[n], after |-> heap[n]]
        /\ UNCHANGED <<XID, pubmap, outstanding, clients, WAITING, lock, heap,
                       nextId, io, workers, dfr, inj>>
        /\ UNCHANGED <<TIMEOUT, translator, services, cvars>>

-----------------------------------------------------------------------------
(* The outside address: it sends any datagram at any time *)

Inject(src, dst, data) ==
    /\ inj < MaxInject
    /\ inj' = inj + 1
    /\ net' = net (+) SetToBag({Datagram(src, dst, data)})
    /\ UNCHANGED <<XID, omap, pubmap, outstanding, clients, WAITING, lock, heap,
                   nextId, io, workers, thr, dfr, last>>
    /\ UNCHANGED <<TIMEOUT, translator, services, cvars>>

-----------------------------------------------------------------------------
(* Specifications *)

\* the codec alone
InitCodec == CodecInit /\ ServiceInit

SpecCodec == InitCodec /\ [][CodecNext]_vars

\* the xid the outside address writes into its requests
EnvXid == PyInt(7)

\* a PULL of the outside address on the object with id oid
EnvPull(op, oid) == WithXid(WithOid(WithOp(Packet(CMD_PULL), op), oid), EnvXid)

\* the datagrams the outside address sends to a serving node; 9 is neither
\* a command byte nor the id of an object
ServerPackets ==
    {WithXid(Packet(CMD_SYNC), EnvXid),
     Packet(CMD_SYNC),
     WithXid(Packet(CMD_DESYNC), EnvXid),
     WithXid(WithName(Packet(CMD_RESOLVE), "o"), EnvXid),
     WithXid(Packet(CMD_LIST), EnvXid),
     WithXid(Packet(CMD_PUSH), EnvXid),
     WithXid(Packet(9), EnvXid),
     WithAttr(EnvPull("GetAttr", 1), AttrX),
     WithAttr(EnvPull("GetAttr", 1), AttrSecret),
     WithAttr(EnvPull("GetAttr", 1), AttrBoom),
     WithAttr(EnvPull("GetAttr", 9), AttrX),
     WithVal(WithAttr(EnvPull("SetAttr", 1), AttrSecret), <<"int", 5>>),
     WithVal(WithAttr(EnvPull("SetAttr", 1), AttrX), Handle(5, "T")),
     [WithArgs(EnvPull("Call", 1), <<Handle(1, "S")>>) EXCEPT !.has = @ \cup {"kwargs"}],
     [WithArgs(EnvPull("Call", 1), <<Handle(9, "S")>>) EXCEPT !.has = @ \cup {"kwargs"}],
     [WithArgs(EnvPull("Call", 2), <<Handle(5, "E")>>) EXCEPT !.has = @ \cup {"kwargs"}],
     EnvPull("Str", 2),
     EnvPull("Zap", 1),
     WithAttr(WithXid(WithOid(Packet(CMD_PULL), 1), EnvXid), AttrX),
     WithResult(WithXid(Packet(CMD_LIST), EnvXid), None),
     Junk}

\* a service that serves: the outside address sends it datagrams while a
\* thread of its application registers and unregisters objects.  No thread
\* waits here, so the loop of SendAll has no turn to take.
Next ==
    \/ \E data \in ServerPackets : Inject("E", "S", data)
    \/ \E dg \in BagToSet(net) : Run_Recv("S", dg)
    \/ SendAll_Done("S")
    \/ Wake("S")
    \/ \E i \in 1..Len(workers["S"]) : cmd_PULL_inner("S", i)
    \/ \E k \in ObjIds, nm \in Names : RegisterPin("a1", k, nm)
    \/ RegisterName("a1")
    \/ \E nm \in Names : Unregister("a1", nm)

Init == ServiceInit /\ CodecIdle

Spec == Init /\ [][Next]_vars

\* the replies the outside address sends to a calling node
ClientReplies ==
    UNION {{WithResult(WithXid(Packet(CMD_RESOLVE), x), <<"int", 42>>),
            WithError(WithXid(Packet(CMD_RESOLVE), x),
                      <<"error", <<"ValueError", <<Str("nope")>>>>>>)} : x \in {PyInt(0), PyInt(1)}}
        \cup {WithResult(Packet(CMD_RESOLVE), None)}

\* what the threads of the calling node ask of the outside address
ClientRequests == {ReqResolve("E", "o"), ReqDisconnect("E")}

\* the steps of the application thread t inside SendPacket and Wait
Calling(t) ==
    \/ NewXID_Read(t)
    \/ NewXID_Write(t)
    \/ NewXID_Return(t)
    \/ SendPacket_Store(t)
    \/ Wait_Acquire(t)
    \/ Go_Add(t)
    \/ Go_OnWait(t)
    \/ Wait_Sleep(t)
    \/ Wait_Reacquire(t)
    \/ Wait_Process_Catch(t)
    \/ Wait_Finish(t)
    \/ Continue(t)

\* a service that calls: two threads of one process make requests and the
\* outside address answers them, or not
ClientNext ==
    \/ \E t \in {"a1", "a2"}, r \in ClientRequests : StartRequest(t, r)
    \/ \E t \in {"a1", "a2"} : Calling(t)
    \/ \E t \in {"a1", "a2"} : Wait_Process_Miss(t)
    \/ \E data \in ClientReplies : Inject("E", "S", data)
    \/ \E dg \in BagToSet(net) : Run_Recv("S", dg)
    \/ \E inst \in WAITING["S"] : SendAll_Accept("S", inst)
    \/ SendAll_Changed("S")
    \/ SendAll_Done("S")
    \/ Wake("S")

SpecClient == Init /\ [][ClientNext]_vars

\* what the thread of T asks of S: it connects, resolves "o" through the
\* client it got, and uses the proxy p it holds: p.x, p.boom, p(p)
PairRequests(t) ==
    {ReqConnect("S")}
        \cup (IF "S" \in clients[Home(t)] THEN {ReqResolve("S", "o")} ELSE {})
        \cup (IF TypeOf(thr[t].held) = "proxy"
              THEN {ReqGetAttr(thr[t].held, AttrX),
                    ReqGetAttr(thr[t].held, AttrBoom),
                    ReqCall(thr[t].held, <<thr[t].held>>)}
              ELSE {})

\* the steps of the worker thread t in the call it makes on a Proxy, up to
\* its reply
Nested(t) ==
    \/ NewXID_Read(t)
    \/ NewXID_Write(t)
    \/ NewXID_Return(t)
    \/ SendPacket_Store(t)
    \/ Wait_Acquire(t)
    \/ Go_Add(t)
    \/ Go_OnWait(t)
    \/ Wait_Sleep(t)
    \/ Wait_Reacquire(t)
    \/ Wait_Process_Catch(t)
    \/ Wait_Process_Miss(t)
    \/ Wait_Finish(t)
    \/ Worker_Reply(t)

\* the I/O thread of node n
Run(n) ==
    \/ \E dg \in BagToSet(net) : Run_Recv(n, dg)
    \/ \E inst \in WAITING[n] : SendAll_Accept(n, inst)
    \/ SendAll_Changed(n)
    \/ SendAll_Done(n)
    \/ Wake(n)

\* the worker threads of node n
Work(n) ==
    \/ \E i \in 1..Len(workers[n]) : cmd_PULL_inner(n, i)
    \/ \E i \in 1..Len(workers[n]), t \in {"w1", "w2"} : Worker_Call(n, i, t)
    \/ \E t \in {"w1", "w2"} : Home(t) = n /\ Nested(t)

\* two services: S registers its object 1 as "o", a thread of T calls S;
\* a PULL on a pinned Proxy makes a worker thread call the other service
PairNext ==
    \/ RegisterPin("a1", 1, "o")
    \/ RegisterName("a1")
    \/ \E r \in PairRequests("b1") : StartRequest("b1", r)
    \/ Calling("b1")
    \/ Wait_Process_Miss("b1")
    \/ \E n \in Nodes : Run(n)
    \/ \E n \in Nodes : Work(n)

SpecPair == Init /\ [][PairNext]_vars

\* no datagram is lost and every thread keeps being scheduled
SpecPairFair ==
    /\ SpecPair
    /\ WF_vars(Calling("b1") \/ Wait_Process_Miss("b1"))
    /\ \A n \in Nodes : WF_vars(Run(n))
    /\ \A n \in Nodes : WF_vars(Work(n))

-----------------------------------------------------------------------------
(* Properties of the service *)

\* C1: when threads of one process call SendPacket concurrently, the xids
\* assigned are pairwise distinct: no two requests that are outstanding at
\* the same time share an xid.
C1_DistinctXids ==
    \A d1, d2 \in DOMAIN dfr :
        (d1 # d2 /\ dfr[d1].srv = dfr[d2].srv /\ ~dfr[d1].ready /\ ~dfr[d2].ready)
            => dfr[d1].xid # dfr[d2].xid

PairwiseDistinctXids(ds) ==
    \A d1, d2 \in ds : d1 # d2 => dfr[d1].xid # dfr[d2].xid

\* C2: Wait completes only with a packet whose xid equals the xid of the
\* DeferredResult; packets with another xid accepted into its queue are
\* discarded and never become its result; and while the xids of the waiters
\* are distinct, one reply packet completes at most one of them.
C2_OnlyMatchingCompletes ==
    /\ \A t \in Threads :
           thr[t].pc \in {"finish", "returned"} =>
               Has(thr[t].got, "xid") /\ thr[t].got.xid = dfr[thr[t].d].xid
    /\ \A d \in DOMAIN dfr :
           /\ dfr[d].ready => dfr[d].result.xid = dfr[d].xid
           /\ dfr[d].xid \notin dfr[d].dropped
    /\ \A n \in Nodes :
           (io[n].pc \in {"sendall", "wake"} /\ PairwiseDistinctXids(io[n].seen)) =>
               Cardinality({d \in io[n].seen :
                               dfr[d].ready /\ dfr[d].result = io[n].pkt}) <= 1

\* a call has returned with its own reply after its Deferred took and
\* discarded a reply with another xid, while another thread was waiting
C2_Witness ==
    \E t \in Threads :
        /\ thr[t].pc = "returned"
        /\ dfr[thr[t].d].dropped # {}
        /\ thr[t].got.xid = dfr[thr[t].d].xid
        /\ \E u \in Threads \ {t} : thr[u].pc = "sleep" /\ dfr[thr[u].d].xid # thr[t].xid

\* C3: S owns o, T holds a proxy p for o and sends p back to S as the
\* argument of a Call on o: the argument S's handler receives is o itself.
C3_IdentityRoundTrip ==
    (/\ last.kind = "pull" /\ last.node = "S" /\ last.src = "T"
     /\ last.handler = "Call" /\ last.pkt.oid = 1 /\ Len(last.pkt.args) = 1)
        => last.pkt.args[1] = Obj(1)

\* what a handle must decode to at the node of the event `last`
DecodedRight(h, v) ==
    IF h[2][2] = last.node
    THEN IF h[2][1] \in DOMAIN last.omap0
         THEN last.disp # "error" /\ v = last.omap0[h[2][1]]
         ELSE last.disp = "error" /\ last.nid1 = last.nid0
    ELSE /\ last.disp # "error"
         /\ TypeOf(v) = "proxy"
         /\ v[2][2] = h[2][1]
         /\ v[2][3] = h[2][2]
         /\ h[2][2] \in last.after

\* C4: a handle with the service's own address decodes to the object stored
\* under its oid in omap, or fails with ValueError and creates no proxy when
\* omap has no such key; a handle with another address decodes to a proxy
\* holding that oid and the client of that address.
C4_HandleDecode ==
    last.kind = "recv" =>
        /\ \A i \in 1..Len(last.wire.args) :
               TypeOf(last.wire.args[i]) = "handle" =>
                   DecodedRight(last.wire.args[i],
                                IF i <= Len(last.pkt.args) THEN last.pkt.args[i] ELSE None)
        /\ TypeOf(last.wire.val) = "handle" => DecodedRight(last.wire.val, last.pkt.val)

\* the handle of the registered object 1 came back to its owner and was
\* decoded to the object
C4_Witness ==
    /\ last.kind = "recv"
    /\ last.node = "S"
    /\ Len(last.wire.args) = 1
    /\ last.wire.args[1] = Handle(1, "S")
    /\ 1 \in DOMAIN last.omap0
    /\ last.pkt.args[1] = Obj(1)

\* C5: a blocking call whose reply carries error raises that error at the
\* caller, with the type name and the args the remote handler raised
\* (ValueError("nope") for p.boom); a reply that carries result makes the
\* call return that result.
C5_ErrorRaisedAtCaller ==
    \A t \in Threads :
        (thr[t].pc = "returned" /\ thr[t].req.kind # "Connect") =>
            /\ (Has(thr[t].got, "error") /\ ~Has(thr[t].got, "result")) =>
                   thr[t].raised /\ thr[t].ret = thr[t].got.error
            /\ (Has(thr[t].got, "result") /\ ~Has(thr[t].got, "error")) =>
                   ~thr[t].raised /\ thr[t].ret = thr[t].got.result
            /\ (thr[t].req.kind = "GetAttr" /\ thr[t].req.pkt.attr = AttrBoom
                    /\ Has(thr[t].got, "error")) =>
                   thr[t].raised /\ thr[t].ret = Exc("ValueError", Str("nope"))

\* C6: with the default authorizer, a PULL on an object of omap whose attr
\* begins with "_" never performs the operation (the object is unchanged)
\* and is answered with error RuntimeError("Access denied"); every other
\* PULL is permitted and its operation is performed.
C6_DefaultAuthorizer ==
    (/\ last.kind = "pull" /\ Has(last.pkt, "oid")
     /\ last.pkt.oid \in DOMAIN last.omap0 /\ last.pkt.oid \in DOMAIN last.before) =>
        LET pkt == last.pkt
            reply == last.sent[1].data
            refused == <<"error", <<"RuntimeError", <<Str("Access denied")>>>>>>
        IN  IF Has(pkt, "attr") /\ Len(pkt.attr) > 0 /\ pkt.attr[1] = 95
            THEN /\ last.handler = "none"
                 /\ last.after = last.before
                 /\ Has(reply, "error") /\ ~Has(reply, "result")
                 /\ reply.error = refused
            ELSE /\ Has(reply, "error") => reply.error # refused
                 /\ Has(pkt, "op") =>
                        last.handler = IF pkt.op \in PullOps THEN pkt.op ELSE "Unknown"
                 /\ (Has(pkt, "op") /\ pkt.op = "SetAttr" /\ Has(pkt, "attr")
                         /\ Has(pkt, "val") /\ pkt.attr # AttrBoom) =>
                        /\ Has(reply, "result")
                        /\ last.after[pkt.oid][pkt.attr] = pkt.val
                 /\ (Has(pkt, "op") /\ pkt.op = "GetAttr" /\ Has(pkt, "attr")
                         /\ pkt.attr \in DOMAIN last.before[pkt.oid]) =>
                        /\ Has(reply, "result")
                        /\ reply.result = ToWire(last.node, last.before[pkt.oid][pkt.attr])

\* a SetAttr of _s on the registered object 1 was refused
C6_Witness ==
    /\ last.kind = "pull"
    /\ Has(last.pkt, "oid") /\ last.pkt.oid \in DOMAIN last.omap0
    /\ Has(last.pkt, "attr") /\ last.pkt.attr = AttrSecret
    /\ last.pkt.op = "SetAttr"
    /\ Has(last.sent[1].data, "error")
    /\ last.after[1][AttrSecret] = <<"int", 7>>

\* C7: after the I/O thread handled a DESYNC from address a, clients has no
\* entry for a and nothing was sent to a; any other datagram from a leaves
\* clients with an entry for a.
C7_Desync ==
    last.kind = "recv" =>
        /\ last.disp = "DESYNC" => (last.src \notin last.after /\ last.sent = <<>>)
        /\ last.disp # "DESYNC" => last.src \in last.after

\* the datagram after a DESYNC of the same address, a LIST, made the entry
\* again
C7_Witness ==
    /\ last.kind = "recv"
    /\ last.prev = "DESYNC"
    /\ last.disp = "LIST"
    /\ last.src \notin last.before
    /\ last.src \in clients[last.node]

PubmapPinned ==
    \A n \in Nodes : \A nm \in DOMAIN pubmap[n] : pubmap[n][nm] \in DOMAIN omap[n]

OmapKept ==
    \A n \in Nodes :
        /\ \A k \in DOMAIN omap[n] : k \in DOMAIN omap'[n] /\ omap'[n][k] = omap[n][k]
        /\ (DOMAIN pubmap'[n] # DOMAIN pubmap[n]
                /\ DOMAIN pubmap'[n] \subseteq DOMAIN pubmap[n]) =>
               /\ omap'[n] = omap[n]
               /\ \E nm \in DOMAIN pubmap[n] : pubmap'[n] = DictDel(pubmap[n], nm)

\* C10: in every reachable state every id stored in pubmap is a key of
\* omap; a step that removes a name from pubmap removes that entry only and
\* leaves omap alone; no step removes or replaces an entry of omap.
C10_PubmapPinned == []PubmapPinned /\ [][OmapKept]_vars

\* object 1 was registered and unregistered: it is still pinned, next to a
\* proxy that an outbound reply pinned
C10_Witness ==
    /\ thr["a1"].pc = "idle"
    /\ pubmap["S"] = <<>>
    /\ 1 \in DOMAIN omap["S"]
    /\ \E k \in DOMAIN omap["S"] : k >= FirstFreeId

\* C13: a decodable request whose command byte has no cmd_ handler (PUSH, or
\* a byte outside the CMD table) is answered with one reply to its sender
\* that carries error NameError("Unknown command") and the request's xid.
C13_UnknownCommand ==
    (/\ last.kind = "recv" /\ last.disp \notin {"error", "reply"}
     /\ last.pkt.cmd \notin {CMD_SYNC, CMD_DESYNC, CMD_PULL, CMD_RESOLVE, CMD_LIST}) =>
        /\ Len(last.sent) = 1
        /\ last.sent[1].dst = last.src
        /\ Has(last.sent[1].data, "error")
        /\ last.sent[1].data.error =
               ErrorSerializer_Serialize(Exc("NameError", Str("Unknown command")))
        /\ Has(last.pkt, "xid") =>
               Has(last.sent[1].data, "xid") /\ last.sent[1].data.xid = last.pkt.xid

\* C14: every reply to a PULL carries exactly one of result and error; the
\* reply to a PULL whose op has no pull_ handler carries error
\* NameError("Unknown pull") and no result.
C14_ResultXorError ==
    last.kind = "pull" =>
        LET reply == last.sent[1].data
        IN  /\ Has(reply, "result") # Has(reply, "error")
            /\ last.handler = "Unknown" =>
                   /\ Has(reply, "error") /\ ~Has(reply, "result")
                   /\ reply.error =
                          ErrorSerializer_Serialize(Exc("NameError", Str("Unknown pull")))

\* C15: every reply a handler sends goes to the address the request came
\* from and carries the command code and the xid of the request; a request
\* is answered at most once.
C15_ReplyMatchesRequest ==
    last.kind \in {"recv", "pull"} =>
        /\ Len(last.sent) <= 1
        /\ \A i \in 1..Len(last.sent) :
               LET reply == last.sent[i].data
               IN  /\ last.sent[i].dst = last.src
                   /\ last.sent[i].src = last.node
                   /\ Has(reply, "result") \/ Has(reply, "error")
                   /\ reply.cmd = last.pkt.cmd
                   /\ Has(reply, "xid") = Has(last.pkt, "xid")
                   /\ Has(last.pkt, "xid") => reply.xid = last.pkt.xid

\* the RESOLVE of the registered name was answered with the handle of the
\* object, under the xid of the request
C15_Witness ==
    /\ last.kind = "recv"
    /\ last.disp = "RESOLVE"
    /\ Len(last.sent) = 1
    /\ last.sent[1].dst = "E"
    /\ last.sent[1].data.cmd = CMD_RESOLVE
    /\ last.sent[1].data.xid = EnvXid
    /\ Has(last.sent[1].data, "result")
    /\ TypeOf(last.sent[1].data.result) = "handle"

\* the thread is between the return of SendPacket and the return of Wait
InWait(t) ==
    thr[t].pc \in {"acquire", "go", "onwait", "wait", "sleep", "notified",
                   "process", "finish"}

\* outstanding[xid] of the thread's service is the thread's own Deferred
OwnEntry(t) ==
    /\ thr[t].xid \in DOMAIN outstanding[Home(t)]
    /\ outstanding[Home(t)][thr[t].xid] = thr[t].d

\* the request is about to be handed to the socket: its Deferred is in the
\* waiter set and in outstanding
StoredBeforeSend ==
    \A t \in Threads :
        thr[t].pc = "onwait" => (thr[t].d \in WAITING[Home(t)] /\ OwnEntry(t))

\* the I/O thread takes a reply to x from the socket and starts to broadcast
\* it while the request of x, already sent, has not completed: its Deferred
\* is in the waiter set
BroadcastFindsWaiter ==
    \A t \in Threads :
        (/\ thr[t].pc \in {"wait", "sleep", "notified", "process"}
         /\ io[Home(t)].pc = "recv"
         /\ io'[Home(t)].pc = "sendall"
         /\ Has(io'[Home(t)].pkt, "xid")
         /\ io'[Home(t)].pkt.xid = thr[t].xid) => thr[t].d \in io'[Home(t)].snap

\* C16: when the request datagram of xid x is handed to the socket its
\* Deferred is in the waiter set and is stored in outstanding[x]; the I/O
\* thread never broadcasts the reply to x while that Deferred, not yet
\* completed, is absent from the waiter set.
C16_WaiterBeforeSend == []StoredBeforeSend /\ [][BroadcastFindsWaiter]_vars

\* C17: from the return of SendPacket until its Wait returns, outstanding[x]
\* is the request's own Deferred, whatever other requests do meanwhile (none
\* of them removes or replaces it); once the Wait has returned x is no key
\* of outstanding.
C17_OutstandingOwn ==
    \A t \in Threads :
        /\ InWait(t) => OwnEntry(t)
        /\ thr[t].pc = "returned" => thr[t].xid \notin DOMAIN outstanding[Home(t)]

\* C18: the I/O thread iterates the waiter set and enqueues onto the
\* Deferreds (SendAll, Accept) holding the lock of the condition, and never
\* while a thread is about to add itself to the set or to remove itself.
C18_LockedAccess ==
    \A n \in Nodes :
        io[n].pc = "sendall" =>
            /\ lock[n] = "io"
            /\ \A t \in Threads : Home(t) = n => thr[t].pc \notin {"go", "process"}

-----------------------------------------------------------------------------
(* Sequential calls of Service.NewXID (service.py:225-229) *)

\* how many xids the process has issued before: none, a few, and the counts
\* around 2^16, 2^31 and 2^32
XidStarts ==
    {PyInt(0), PyInt(1), PyInt(2), <<0, 65535>>, <<1, 0>>, <<32767, 65535>>,
     <<32768, 0>>, <<65535, 65533>>, <<65535, 65534>>, <<65535, 65535>>}

InitXid ==
    /\ \E x \in XidStarts : XID = [n \in Nodes |-> x]
    /\ ServiceFields
    /\ OneServiceEach
    /\ CodecIdle

\* one thread calls Disconnect again and again: each call runs SendPacket
\* and with it NewXID, and returns without waiting
NextXid ==
    \/ StartRequest("b1", ReqDisconnect("S"))
    \/ NewXID_Read("b1")
    \/ NewXID_Write("b1")
    \/ NewXID_Return("b1")
    \/ SendPacket_Store("b1")

SpecXid == InitXid /\ [][NextXid]_vars

\* C19: the call of NewXID made when k xids have been issued returns
\* k mod 2^32, a value in 0 .. 2^32 - 1: 2^32 - 1 when 2^32 - 1 have been
\* issued and 0 on the call after it, never a negative value.
C19_XidSequence ==
    \A t \in Threads :
        thr[t].pc = "store" =>
            /\ thr[t].xid = thr[t].tmp
            /\ PyInt_IsU32(thr[t].xid)

-----------------------------------------------------------------------------
(* Waiting with a timeout (service.py:51-65) *)

\* what the outside address sends while it answers no request: replies to
\* an xid nobody waits for
StrayReplies == {WithResult(WithXid(Packet(CMD_RESOLVE), EnvXid), None)}

\* the steps of thread t from SendPacket into the loop of Deferred.Wait
Blocking(t) ==
    \/ NewXID_Read(t)
    \/ NewXID_Write(t)
    \/ NewXID_Return(t)
    \/ SendPacket_Store(t)
    \/ Wait_Acquire(t)
    \/ Go_Add(t)
    \/ Go_OnWait(t)
    \/ Wait_Sleep(t)
    \/ Wait_Timeout(t)
    \/ Wait_Reacquire(t)
    \/ Wait_Process_Miss(t)

\* the I/O thread of S
Serving ==
    \/ \E dg \in BagToSet(net) : Run_Recv("S", dg)
    \/ \E inst \in WAITING["S"] : SendAll_Accept("S", inst)
    \/ SendAll_Changed("S")
    \/ SendAll_Done("S")
    \/ Wake("S")

\* the application sets a timeout at some time, two of its threads make a
\* request each, and no reply to them ever arrives
NextTimeout ==
    \/ \E tm \in Timeouts : TIMEOUT["S"] = None /\ SetTimeout("S", tm)
    \/ \E t \in {"a1", "a2"} : StartRequest(t, ReqResolve("E", "o"))
    \/ \E t \in {"a1", "a2"} : Blocking(t)
    \/ \E data \in StrayReplies : Inject("E", "S", data)
    \/ Serving

\* every thread and the I/O thread keep being scheduled
SpecTimeout ==
    /\ Init
    /\ [][NextTimeout]_vars
    /\ \A t \in {"a1", "a2"} : SF_vars(Blocking(t))
    /\ SF_vars(Serving)

\* C12: with a finite timeout configured and no matching reply, a caller
\* asleep in Wait is eventually released: it leaves Wait; and as long as it
\* is in Wait the entry of its xid stays in outstanding.
C12_TimeoutReleases ==
    /\ \A t \in {"a1", "a2"} :
           (thr[t].pc = "sleep" /\ thr[t].tmo # None) ~> ~InWait(t)
    /\ [](\A t \in {"a1", "a2"} :
              InWait(t) => thr[t].xid \in DOMAIN outstanding[Home(t)])

-----------------------------------------------------------------------------
(* A blocking read through a proxy, with every thread scheduled *)

\* the thread t reads attribute x of S's object 1 through its proxy
ReadsX(t) ==
    /\ thr[t].req.kind = "GetAttr"
    /\ thr[t].req.dst = "S"
    /\ thr[t].req.pkt.oid = 1
    /\ thr[t].req.pkt.attr = AttrX

\* a read of x of object 1 that came back gave the value S holds
ReadGivesValue ==
    (thr["b1"].pc = "returned" /\ ReadsX("b1")) =>
        ~thr["b1"].raised /\ thr["b1"].ret = heap["S"][1][AttrX]

\* an I/O thread has left run with an exception
IoDead == \E n \in Nodes : io[n].pc = "dead"

\* C11: with the I/O threads of S and T running and no datagram lost, a
\* blocking GetAttr("x") that a thread of T makes on its proxy of S's object
\* o comes back, and with the value of o.x: the wake-up of the reply is
\* never lost
C11_BlockingCallReturns ==
    /\ []ReadGivesValue
    /\ (thr["b1"].pc = "new1" /\ ReadsX("b1"))
           ~> ((thr["b1"].pc = "returned" /\ ReadsX("b1")) \/ IoDead)

C11_Witness ==
    /\ thr["b1"].pc = "returned"
    /\ ReadsX("b1")
    /\ ~thr["b1"].raised
    /\ thr["b1"].ret = <<"int", 42>>
    /\ Has(thr["b1"].got, "result")
    /\ ~IoDead

-----------------------------------------------------------------------------
(* A reentrant chain: T calls S, whose handler calls back into T *)

\* the request of thread t is a PULL on an object that S holds as a pinned
\* Proxy of an object of T: S's handler has to call T to answer it
CallsBack(t) ==
    /\ thr[t].req.kind \in {"GetAttr", "Call"}
    /\ thr[t].req.dst = "S"
    /\ thr[t].req.pkt.oid \in DOMAIN omap["S"]
    /\ TypeOf(omap["S"][thr[t].req.pkt.oid]) = "proxy"
    /\ omap["S"][thr[t].req.pkt.oid][2][3] = "T"

\* the I/O thread of every node is alive and able to go on: it is in recv,
\* in a SendAll whose set did not change under it, or about to notify
IoRuns ==
    \A n \in Nodes :
        /\ io[n].pc \in {"recv", "sendall", "wake"}
        /\ io[n].pc = "sendall" => Cardinality(WAITING[n]) = io[n].size

\* a thread blocked in Wait has released the condition: the I/O thread can
\* take it to notify, and another thread of the service can enter Wait
BlockedHoldsNoLock ==
    \A t \in Threads : thr[t].pc = "sleep" => lock[Home(t)] # t

\* a read of x through the chain gives the value S holds for object 1
ChainGivesValue ==
    (thr["b1"].pc = "returned" /\ CallsBack("b1") /\ thr["b1"].req.kind = "GetAttr"
        /\ thr["b1"].req.pkt.attr = AttrX) =>
            ~thr["b1"].raised /\ thr["b1"].ret = heap["S"][1][AttrX]

-----------------------------------------------------------------------------
(* Requests whose Deferred the caller does not wait for *)

\* RemoteReference.SetAttr on the proxy p with blocking set to False
ReqSetAttr_NoWait(p, attr, val) ==
    [ReqSetAttr(p, attr, val) EXCEPT !.blocking = FALSE]

\* what the thread of T asks for: Connect, Resolve, a blocking GetAttr,
\* and Disconnect or a SetAttr that does not block
PollRequests(t) ==
    {ReqConnect("S"), ReqDisconnect("S")}
        \cup (IF "S" \in clients[Home(t)] THEN {ReqResolve("S", "o")} ELSE {})
        \cup (IF TypeOf(thr[t].held) = "proxy"
              THEN {ReqGetAttr(thr[t].held, AttrX),
                    ReqSetAttr_NoWait(thr[t].held, AttrX, <<"int", 1>>)}
              ELSE {})

\* the I/O thread of node n while one thread at most waits in its process
Serve(n) ==
    \/ \E dg \in BagToSet(net) : Run_Recv(n, dg)
    \/ \E inst \in WAITING[n] : SendAll_Accept(n, inst)
    \/ SendAll_Done(n)
    \/ Wake(n)

PollNext ==
    \/ RegisterPin("a1", 1, "o")
    \/ RegisterName("a1")
    \/ \E r \in PollRequests("b1") : StartRequest("b1", r)
    \/ Calling("b1")
    \/ \E n \in Nodes : Serve(n)
    \/ \E n \in Nodes : \E i \in 1..Len(workers[n]) : cmd_PULL_inner(n, i)

\* no datagram is lost and every thread keeps being scheduled
SpecPoll ==
    /\ Init
    /\ [][PollNext]_vars
    /\ WF_vars(Calling("b1"))
    /\ \A n \in Nodes : WF_vars(Serve(n))
    /\ \A n \in Nodes : WF_vars(\E i \in 1..Len(workers[n]) : cmd_PULL_inner(n, i))

\* SendPacket has returned the Deferred of a request the caller does not
\* wait for
Unwaited(t, kind) ==
    /\ thr[t].pc = "idle"
    /\ thr[t].req.kind = kind
    /\ ~thr[t].req.blocking
    /\ thr[t].d \in DOMAIN dfr

\* the datagram of a request of that kind is on its way from T to S
OnItsWay(kind) ==
    \E dg \in BagToSet(net) :
        /\ dg.src = "T"
        /\ dg.dst = "S"
        /\ \/ kind = "Disconnect" /\ dg.data.cmd = CMD_DESYNC
           \/ kind = "SetAttr" /\ dg.data.cmd = CMD_PULL /\ dg.data.op = "SetAttr"

\* C21: every request SendPacket created is transmitted whether or not the
\* caller waits: Disconnect leads to a DESYNC datagram, a SetAttr that does
\* not block leads to its PULL datagram
C21_RequestTransmitted ==
    \A kind \in {"Disconnect", "SetAttr"} :
        Unwaited("b1", kind) ~> OnItsWay(kind)

-----------------------------------------------------------------------------
(* The I/O loop and the datagrams it is sent *)

\* C22: no inbound datagram ends the I/O loop: after any datagram the I/O
\* thread is still in run, and bytes that do not decode are dropped without
\* a reply while their sender stays in clients
C22_LoopSurvives ==
    /\ io["S"].pc # "dead"
    /\ (last.kind = "recv" /\ last.disp = "error") =>
           /\ last.sent = <<>>
           /\ last.src \in last.after

-----------------------------------------------------------------------------
(* Two Services constructed in one process *)

\* the datagrams the outside address sends to the services of the process:
\* a read that is answered with object 1, a call that carries the handle of
\* S's object 1, and a RESOLVE
SharedPackets ==
    {WithAttr(EnvPull("GetAttr", 2), AttrX),
     [WithArgs(EnvPull("Call", 1), <<Handle(1, "S")>>) EXCEPT !.has = @ \cup {"kwargs"}],
     WithXid(WithName(Packet(CMD_RESOLVE), "o"), EnvXid)}

\* no Service has been constructed
InitShared ==
    /\ XID = [n \in Nodes |-> PyInt(0)]
    /\ ServiceFields
    /\ translator = [n \in Nodes |-> "none"]
    /\ services = {}
    /\ CodecIdle

\* one process constructs S and T, in either order; the application
\* registers its objects with S and the outside address sends datagrams to
\* both
SharedNext ==
    \/ \E n \in Nodes \ services : Service_Init(n, Nodes)
    \/ \E k \in ObjIds : "S" \in services /\ RegisterPin("a1", k, "o")
    \/ RegisterName("a1")
    \/ \E n \in services, data \in SharedPackets : Inject("E", n, data)
    \/ \E n \in services, dg \in BagToSet(net) : Run_Recv(n, dg)
    \/ \E n \in services : \E i \in 1..Len(workers[n]) : cmd_PULL_inner(n, i)

SpecShared == InitShared /\ [][SharedNext]_vars

\* the handle h, written in a datagram the service n sent, names an object
\* pinned in n's own omap and carries n's own address
HandleOfSender(h, n) ==
    /\ h[2][2] = n
    /\ h[2][1] \in DOMAIN omap[n]

\* the handle h, read by the service last.node, was compared with the
\* address of that service
ComparedWithOwn(h, v) ==
    IF h[2][2] = last.node
    THEN h[2][1] \in DOMAIN last.omap0 => v = last.omap0[h[2][1]]
    ELSE TypeOf(v) = "proxy" /\ v[2][2] = h[2][1] /\ v[2][3] = h[2][2]

\* C23: also with several Services in one process, a local object written
\* as a handle in a packet a Service sends is pinned in the omap of that
\* Service and carries its address, and a handle a Service reads is compared
\* with its own address
C23_OwnTranslator ==
    /\ \A i \in 1..Len(last.sent) :
           TypeOf(last.sent[i].data.result) = "handle" =>
               HandleOfSender(last.sent[i].data.result, last.sent[i].src)
    /\ (last.kind = "recv" /\ last.disp # "error") =>
           \A i \in 1..Len(last.wire.args) :
               (TypeOf(last.wire.args[i]) = "handle" /\ i <= Len(last.pkt.args)) =>
                   ComparedWithOwn(last.wire.args[i], last.pkt.args[i])

=============================================================================
